---------------------------- MODULE Spec2Model ----------------------------
(***************************************************************************)
(* A model of the TMR reconstruction / error-estimation code               *)
(* (src/src/TMRGeometry.c) and of the curve and surface finite-difference  *)
(* derivatives (src/unnamed/part_000).                                     *)
(*                                                                         *)
(* The module holds several state machines over one set of variables; each *)
(* specification runs one of them and leaves the variables of the others   *)
(* at their idle values.                                                   *)
(*                                                                         *)
(*   SpecGeo   TMRCurve::evalDeriv and TMRSurface::evalDeriv               *)
(*   SpecRef   the per-element buffer of addRefinedSolution2D/3D and of     *)
(*             TMR_ComputeInterpSolution                                   *)
(*   SpecProg  the statements of every routine on distributed vectors,     *)
(*             work arrays and collaborators, in source order              *)
(*   SpecKS    the two quadrature passes of the KS stress aggregate         *)
(*   SpecWt    computeLocalWeights on several processes                    *)
(*   SpecNd    the element loops of computeLocalWeights,                   *)
(*             computeNodeDeriv2D/3D and addRefinedSolution2D/3D           *)
(*   SpecRc    the assembly and normalization of the refined field in      *)
(*             TMR_ComputeReconSolution on several processes               *)
(*   SpecKp    the two passes and the two reductions of                    *)
(*             TMRStressConstraint::evalConstraint on several processes    *)
(*   SpecQp    the quadrature loops of evalConstraint and evalConDeriv     *)
(*             over one element                                            *)
(*   SpecCo    the collective operations (finalize / distribute pairs,     *)
(*             all-reduces) of one call on several processes               *)
(*   SpecCv    the external-node array of TMRCurvatureConstraint::init and *)
(*             the distribute of evalConstraint on one process             *)
(*   SpecKw    the knot loops of computeElemRecon3D and of evalConDeriv:   *)
(*             the entries of wvals and of the enrichment arrays they use  *)
(*   SpecDu    addEnrichDeriv's last product and the chain-rule product of *)
(*             evalConDeriv over one element                               *)
(*   SpecDg    compare_degen_edges on the edges removeDegenerateEdges      *)
(*             sorts (src/src/TMRTriangularize.c)                          *)
(*   SpecQt    TMRQuadNode: addNode and deleteNode on a quadtree           *)
(*   SpecAx    the auxiliary-element cursor of TMR_AdjointErrorEst         *)
(***************************************************************************)
EXTENDS Integers, Sequences, FiniteSets, TLC

VARIABLES
  \* ---- geometry entities (part_000) ----
  crange,     \* the curve's parameter range <<tmin, tmax>> (getRange)
  srange,     \* the surface's range [umin, umax, vmin, vmax] (getRange)
  geoCall,    \* the last evalDeriv call: its arguments and what it returned
  \* ---- the element buffer of the refined-field builders ----
  rcfg,       \* the running call: function, dimension, orders, mesh data
  rpc,        \* the position inside the call
  relem,      \* the element loop index
  uref,       \* the element buffer (uref / vars_interp), by C index
  urefLen,    \* the number of entries the buffer was allocated with
  accessed,   \* the buffer indices written or read so far
  lastSet,    \* the arguments of the last setValues on the refined vector
  vecRefined, \* the refined vector's storage, by node index
  \* ---- the distributed-vector protocol of the routines ----
  pcfg,       \* the running routine and its arguments
  prog,       \* the routine's statements on vectors, buffers and collaborators
  ppc,        \* the index of the next statement
  vecs,       \* each distributed vector: owner, reference count, phase, dirtiness
  bufs,       \* what each per-element work array holds
  last,       \* the statement just executed and the vector's state before it
  energy,     \* the last computeEnergies call and the indicator taken from it
  collab,     \* the assembler's auxiliary-element container
  \* ---- the KS aggregate of TMRStressConstraint::evalConstraint ----
  kpts,       \* the quadrature points of the local elements, in loop order
  kpc,        \* the position: "idle", "max", "sum" or "done"
  ki,         \* the index of the next quadrature point
  ks_max_fail,  \* the running / reduced maximum failure value
  ks_fail_sum,  \* the running / reduced sum
  ksStep,     \* the last quadrature point handled and the sum around it
  \* ---- computeLocalWeights on several processes ----
  wpc,        \* each process's position in computeLocalWeights
  wleft,      \* each process's number of elements of S not yet visited
  wloc,       \* each process's local part of the weight vector, by node index
  wsent,      \* the off-process contributions each process has sent
  wdist,      \* the owned values each process has sent out
  wrefs,      \* per process and node: the slots of S seen referencing it
  \* ---- the element loops of the routines that take an element list ----
  ncfg,       \* the running call: function, dimension, order, nodes, element list
  npc,        \* the position inside the call
  nindex,     \* the element loop index
  nbuf,       \* the element buffer handed to setValues, by C index
  nread,      \* the elements whose data the call has read, in order
  nadds,      \* the setValues calls made, in order: element, nodes, values
  \* ---- the assembly of TMR_ComputeReconSolution on several processes ----
  rccfg,      \* the mesh of the call: each element's process, name group, nodes
  rcpc,       \* each process's position in TMR_ComputeReconSolution
  rcgrp,      \* each process's number of name groups handled
  uloc,       \* each process's local part of uvec_refined, by node index
  usent,      \* the contributions to uvec_refined each process has sent
  wrloc,      \* each process's local part of weights_refined, by node index
  wrsent,     \* the contributions to weights_refined each process has sent
  wrdist,     \* the owned values of weights_refined each process has sent out
  \* ---- evalConstraint of TMRStressConstraint on several processes ----
  kpcfg,      \* the call: each process's number of quadrature points, and the field
  kppc,       \* each process's position in evalConstraint
  kpi,        \* each process's index of the next quadrature point
  kpmax,      \* each process's ks_max_fail
  kpin,       \* the value each process handed to the MPI_MAX reduction
  kpsum,      \* each process's ks_fail_sum
  kpsin,      \* the value each process handed to the MPI_SUM reduction
  kplast,     \* per process, the last term added and the maximum it used
  \* ---- the quadrature sweeps of TMRStressConstraint over one element ----
  qorder,     \* the mesh order of the constraint (0 before it is constructed)
  qpc,        \* the sweep in progress: "max", "sum", "sens", or "idle" / "done"
  qidx,       \* the loop counters <<ii, jj, kk>> of the sweep
  qseen,      \* per sweep, the quadrature points visited in one element, in order
  \* ---- the collective operations of one call on several processes ----
  cocfg,      \* the running call on each process (same routine, local mesh data)
  copos,      \* per process: the number of collective operations it has completed
  coin,       \* per process: whether it is inside its next blocking collective
  coseq,      \* per process: the collective operations of its run, in order
  \* ---- the external nodes of TMRCurvatureConstraint ----
  cvcfg,      \* the forest data of the process: rank, owned node ranges, local node numbers
  cvpc,       \* the position inside init / evalConstraint
  cvext,      \* ext_nodes: the external node numbers init collected
  cvheld,     \* per entry of ext_nodes, the value the process holds after the distribute
  \* ---- the knot weights and enrichment values of the 3D least-squares setup ----
  kwcfg,      \* the running routine and the mesh order of its forest
  kwpc,       \* the position inside the routine
  kwidx,      \* the knot loop counters <<ii, jj, kk>>
  kwwset,     \* the indices of wvals that have been assigned
  kwnset,     \* the indices of Nar, Nbr, Ncr assigned at the current knot
  kwwread,    \* the indices at which wvals has been read
  kwnread,    \* the indices at which Nar, Nbr, Ncr have been read
  \* ---- the product (df/dubar)(dubar/du) of evalConDeriv ----
  ducfg,      \* the element call: the dimensions m, n, p and the arrays dubar_duderiv, dbdu, dfdubar
  dupc,       \* the position inside the element iteration
  dubardu,    \* the array dubardu, by C index
  duidx,      \* the loop counters <<ii, jj>> of the chain-rule product
  dfdu_elem,  \* the array dfdu_elem, by C index
  duread,     \* the reads of dubardu made by the product: ii, jj, index, value
  \* ---- the comparison of degenerate edges ----
  dgpair,     \* the two edges handed to the comparison, each <<first, second>>
  dgpc,       \* the position: "idle", "sorting", "compared"
  dgres,      \* the value compare_degen_edges returned
  \* ---- the quadtree of points (TMRQuadNode) ----
  qtree,      \* the quadtree: for every allocated node (its path from the root) whether it has children, and its points
  qtcount,    \* the number of points handed to addNode so far
  qtlast,     \* the last call on the quadtree: operation, point number, point, returned value
  \* ---- the auxiliary elements of TMR_AdjointErrorEst ----
  axcfg,      \* the running TMR_AdjointErrorEst: dimension, elements, auxiliary container
  axpc,       \* the position inside the element loop
  axaux,      \* the array aux of the sorted container: element number and identity
  axcount,    \* aux_count
  axelem,     \* the element loop index elem
  axcalls,    \* the addLocalizedError calls made on auxiliary elements: identity and iteration
  \* ---- TMRCurvatureConstraint::evalConstraint on several processes ----
  cmcfg,      \* the running TMRCurvatureConstraint::evalConstraint: elements per process, field
  cmpc,       \* each process's position in the call
  cmi,        \* each process's element loop index elem
  cmmax,      \* each process's max_curvature
  cmin,       \* what each process handed to the MPI_MAX reduction
  \* ---- the triangle list and edge hash table of TMRTriangularize ----
  trmesh,     \* the triangle list, the edge hash table, pts_to_tris and the counters
  trlast,     \* the last call made on the mesh and its return value
  \* ---- TMRTriangularize::initialize ----
  incfg,      \* the running TMRTriangularize::initialize: points, holes, segments
  inpc,       \* the position inside initialize
  inst        \* the object: mesh, pts, the points in the quadtree, PSLG edges, loop index

geoVars == <<crange, srange, geoCall>>
refVars == <<rcfg, rpc, relem, uref, urefLen, accessed, lastSet, vecRefined>>

progVars == <<pcfg, prog, ppc, vecs, bufs, last, energy, collab>>
ksVars == <<kpts, kpc, ki, ks_max_fail, ks_fail_sum, ksStep>>
wtVars == <<wpc, wleft, wloc, wsent, wdist, wrefs>>
ndVars == <<ncfg, npc, nindex, nbuf, nread, nadds>>
rcVars == <<rccfg, rcpc, rcgrp, uloc, usent, wrloc, wrsent, wrdist>>
kpVars == <<kpcfg, kppc, kpi, kpmax, kpin, kpsum, kpsin, kplast>>
qpVars == <<qorder, qpc, qidx, qseen>>
coVars == <<cocfg, copos, coin, coseq>>
cvVars == <<cvcfg, cvpc, cvext, cvheld>>
kwVars == <<kwcfg, kwpc, kwidx, kwwset, kwnset, kwwread, kwnread>>
duVars == <<ducfg, dupc, dubardu, duidx, dfdu_elem, duread>>
dgVars == <<dgpair, dgpc, dgres>>
qtVars == <<qtree, qtcount, qtlast>>
axVars == <<axcfg, axpc, axaux, axcount, axelem, axcalls>>
cmVars == <<cmcfg, cmpc, cmi, cmmax, cmin>>
trVars == <<trmesh, trlast>>
inVars == <<incfg, inpc, inst>>

vars == <<crange, srange, geoCall,
          rcfg, rpc, relem, uref, urefLen, accessed, lastSet, vecRefined,
          pcfg, prog, ppc, vecs, bufs, last, energy, collab,
          kpts, kpc, ki, ks_max_fail, ks_fail_sum, ksStep,
          wpc, wleft, wloc, wsent, wdist, wrefs,
          ncfg, npc, nindex, nbuf, nread, nadds,
          rccfg, rcpc, rcgrp, uloc, usent, wrloc, wrsent, wrdist,
          kpcfg, kppc, kpi, kpmax, kpin, kpsum, kpsin, kplast,
          qorder, qpc, qidx, qseen,
          cocfg, copos, coin, coseq,
          cvcfg, cvpc, cvext, cvheld,
          kwcfg, kwpc, kwidx, kwwset, kwnset, kwwread, kwnread,
          ducfg, dupc, dubardu, duidx, dfdu_elem, duread,
          dgpair, dgpc, dgres,
          qtree, qtcount, qtlast,
          axcfg, axpc, axaux, axcount, axelem, axcalls,
          cmcfg, cmpc, cmi, cmmax, cmin,
          trmesh, trlast,
          incfg, inpc, inst>>

\* What each state machine leaves alone.
notGeo == <<refVars, progVars, ksVars, wtVars, ndVars, rcVars, kpVars, qpVars, coVars, cvVars, kwVars, duVars, dgVars, qtVars, axVars, cmVars, trVars, inVars>>
notRef == <<geoVars, progVars, ksVars, wtVars, ndVars, rcVars, kpVars, qpVars, coVars, cvVars, kwVars, duVars, dgVars, qtVars, axVars, cmVars, trVars, inVars>>
notProg == <<geoVars, refVars, ksVars, wtVars, ndVars, rcVars, kpVars, qpVars, coVars, cvVars, kwVars, duVars, dgVars, qtVars, axVars, cmVars, trVars, inVars>>
notKs == <<geoVars, refVars, progVars, wtVars, ndVars, rcVars, kpVars, qpVars, coVars, cvVars, kwVars, duVars, dgVars, qtVars, axVars, cmVars, trVars, inVars>>
notWt == <<geoVars, refVars, progVars, ksVars, ndVars, rcVars, kpVars, qpVars, coVars, cvVars, kwVars, duVars, dgVars, qtVars, axVars, cmVars, trVars, inVars>>
notNd == <<geoVars, refVars, progVars, ksVars, wtVars, rcVars, kpVars, qpVars, coVars, cvVars, kwVars, duVars, dgVars, qtVars, axVars, cmVars, trVars, inVars>>
notRc == <<geoVars, refVars, progVars, ksVars, wtVars, ndVars, kpVars, qpVars, coVars, cvVars, kwVars, duVars, dgVars, qtVars, axVars, cmVars, trVars, inVars>>
notKp == <<geoVars, refVars, progVars, ksVars, wtVars, ndVars, rcVars, qpVars, coVars, cvVars, kwVars, duVars, dgVars, qtVars, axVars, cmVars, trVars, inVars>>
notQp == <<geoVars, refVars, progVars, ksVars, wtVars, ndVars, rcVars, kpVars, coVars, cvVars, kwVars, duVars, dgVars, qtVars, axVars, cmVars, trVars, inVars>>
notCo == <<geoVars, refVars, progVars, ksVars, wtVars, ndVars, rcVars, kpVars, qpVars, cvVars, kwVars, duVars, dgVars, qtVars, axVars, cmVars, trVars, inVars>>
notCv == <<geoVars, refVars, progVars, ksVars, wtVars, ndVars, rcVars, kpVars, qpVars, coVars, kwVars, duVars, dgVars, qtVars, axVars, cmVars, trVars, inVars>>
notKw == <<geoVars, refVars, progVars, ksVars, wtVars, ndVars, rcVars, kpVars, qpVars, coVars, cvVars, duVars, dgVars, qtVars, axVars, cmVars, trVars, inVars>>
notDu == <<geoVars, refVars, progVars, ksVars, wtVars, ndVars, rcVars, kpVars, qpVars, coVars, cvVars, kwVars, dgVars, qtVars, axVars, cmVars, trVars, inVars>>
notDg == <<geoVars, refVars, progVars, ksVars, wtVars, ndVars, rcVars, kpVars, qpVars, coVars, cvVars, kwVars, duVars, qtVars, axVars, cmVars, trVars, inVars>>
notQt == <<geoVars, refVars, progVars, ksVars, wtVars, ndVars, rcVars, kpVars, qpVars, coVars, cvVars, kwVars, duVars, dgVars, axVars, cmVars, trVars, inVars>>
notAx == <<geoVars, refVars, progVars, ksVars, wtVars, ndVars, rcVars, kpVars, qpVars, coVars, cvVars, kwVars, duVars, dgVars, qtVars, cmVars, trVars, inVars>>
notCm == <<geoVars, refVars, progVars, ksVars, wtVars, ndVars, rcVars, kpVars, qpVars, coVars, cvVars, kwVars, duVars, dgVars, qtVars, axVars, trVars, inVars>>
notTr == <<geoVars, refVars, progVars, ksVars, wtVars, ndVars, rcVars, kpVars, qpVars, coVars, cvVars, kwVars, duVars, dgVars, qtVars, axVars, cmVars, inVars>>
notIn == <<geoVars, refVars, progVars, ksVars, wtVars, ndVars, rcVars, kpVars, qpVars, coVars, cvVars, kwVars, duVars, dgVars, qtVars, axVars, cmVars, trVars>>

NoCall == [fn |-> "none"]

(***************************************************************************)
(* Geometry: finite-difference derivatives of curves and surfaces.         *)
(* Parameters are counted in units of the step size, so the step is 1.     *)
(***************************************************************************)

\* The largest parameter value tried (in units of the step size).
MaxParam == 3

\* TMRCurve::deriv_step_size and TMRSurface::deriv_step_size, in step units.
deriv_step_size == 1

Params == (0 - 1) .. MaxParam
Flags == {0, 1}

\* fail || x of C: 0 or 1.
LogicalOr(a, b) == IF a # 0 \/ b # 0 THEN 1 ELSE 0

\* TMRCurve::evalDeriv: the flag returned, and whether *Xt was assigned.
\* fp is what evalPoint(t) returns, fp2 what the shifted evalPoint returns.
CurveEvalDeriv(t, tmin, tmax, fp, fp2) ==
  IF t >= tmin /\ t <= tmax
    THEN IF fp # 0
           THEN [fail |-> fp, set |-> FALSE]
           ELSE IF t + deriv_step_size <= tmax
                  THEN [fail |-> fp2, set |-> (fp2 = 0)]
                  ELSE IF t >= tmin + deriv_step_size
                         THEN [fail |-> fp2, set |-> (fp2 = 0)]
                         ELSE [fail |-> fp, set |-> FALSE]
    ELSE [fail |-> 1, set |-> FALSE]

\* One parameter direction of TMRSurface::evalDeriv: the flag after the
\* forward / backward / neither choice along that direction.
SurfaceDirection(fail, x, xmin, xmax, fp2) ==
  IF x + deriv_step_size <= xmax
    THEN LogicalOr(fail, fp2)
    ELSE IF x >= xmin + deriv_step_size
           THEN LogicalOr(fail, fp2)
           ELSE 1

\* TMRSurface::evalDeriv: the flag returned. fp is what evalPoint(u, v)
\* returns, fpu and fpv what the shifted evaluations return.
SurfaceEvalDeriv(u, v, r, fp, fpu, fpv) ==
  IF u >= r.umin /\ u <= r.umax /\ v >= r.vmin /\ v <= r.vmax
    THEN SurfaceDirection(SurfaceDirection(fp, u, r.umin, r.umax, fpu),
                          v, r.vmin, r.vmax, fpv)
    ELSE 0

Ranges == {<<a, b>> \in (0 .. MaxParam - 1) \X (0 .. MaxParam - 1) : a <= b}

GeoIdle ==
  /\ crange = <<0, 0>>
  /\ srange = [umin |-> 0, umax |-> 0, vmin |-> 0, vmax |-> 0]
  /\ geoCall = NoCall

RefIdle ==
  /\ rcfg = [fn |-> "none"]
  /\ rpc = "idle"
  /\ relem = 0
  /\ uref = <<>>
  /\ urefLen = 0
  /\ accessed = {}
  /\ lastSet = [op |-> "none"]
  /\ vecRefined = <<>>

ProgIdle ==
  /\ pcfg = [fn |-> "none"]
  /\ prog = <<>>
  /\ ppc = 1
  /\ vecs = <<>>
  /\ bufs = <<>>
  /\ last = [op |-> "none"]
  /\ energy = [called |-> FALSE]
  /\ collab = <<>>

KsIdle ==
  /\ kpts = <<>>
  /\ kpc = "idle"
  /\ ki = 1
  /\ ks_max_fail = 0
  /\ ks_fail_sum = 0
  /\ ksStep = [op |-> "none"]

WtIdle ==
  /\ wpc = <<>>
  /\ wleft = <<>>
  /\ wloc = <<>>
  /\ wsent = <<>>
  /\ wdist = <<>>
  /\ wrefs = <<>>

NdIdle ==
  /\ ncfg = NoCall
  /\ npc = "idle"
  /\ nindex = 0
  /\ nbuf = <<>>
  /\ nread = <<>>
  /\ nadds = <<>>

RcIdle ==
  /\ rccfg = NoCall
  /\ rcpc = <<>>
  /\ rcgrp = <<>>
  /\ uloc = <<>>
  /\ usent = <<>>
  /\ wrloc = <<>>
  /\ wrsent = <<>>
  /\ wrdist = <<>>

KpIdle ==
  /\ kpcfg = NoCall
  /\ kppc = <<>>
  /\ kpi = <<>>
  /\ kpmax = <<>>
  /\ kpin = <<>>
  /\ kpsum = <<>>
  /\ kpsin = <<>>
  /\ kplast = <<>>

QpIdle ==
  /\ qorder = 0
  /\ qpc = "idle"
  /\ qidx = <<0, 0, 0>>
  /\ qseen = <<>>

CoIdle ==
  /\ cocfg = NoCall
  /\ copos = <<>>
  /\ coin = <<>>
  /\ coseq = <<>>

CvIdle ==
  /\ cvcfg = NoCall
  /\ cvpc = "idle"
  /\ cvext = <<>>
  /\ cvheld = <<>>

KwIdle ==
  /\ kwcfg = NoCall
  /\ kwpc = "idle"
  /\ kwidx = <<0, 0, 0>>
  /\ kwwset = {}
  /\ kwnset = {}
  /\ kwwread = {}
  /\ kwnread = {}

DuIdle ==
  /\ ducfg = NoCall
  /\ dupc = "idle"
  /\ dubardu = <<>>
  /\ duidx = <<0, 0>>
  /\ dfdu_elem = <<>>
  /\ duread = {}

DgIdle ==
  /\ dgpair = <<>>
  /\ dgpc = "idle"
  /\ dgres = 0

QtIdle ==
  /\ qtree = <<>>
  /\ qtcount = 0
  /\ qtlast = NoCall

AxIdle ==
  /\ axcfg = NoCall
  /\ axpc = "idle"
  /\ axaux = <<>>
  /\ axcount = 0
  /\ axelem = 0
  /\ axcalls = <<>>

CmIdle ==
  /\ cmcfg = NoCall
  /\ cmpc = <<>>
  /\ cmi = <<>>
  /\ cmmax = <<>>
  /\ cmin = <<>>

TrIdle ==
  /\ trmesh = NoCall
  /\ trlast = NoCall

InIdle ==
  /\ incfg = NoCall
  /\ inpc = "idle"
  /\ inst = NoCall

InitGeo ==
  /\ crange \in Ranges
  /\ \E ru \in Ranges, rv \in Ranges :
       srange = [umin |-> ru[1], umax |-> ru[2], vmin |-> rv[1], vmax |-> rv[2]]
  /\ geoCall = NoCall
  /\ RefIdle
  /\ ProgIdle
  /\ KsIdle
  /\ WtIdle
  /\ NdIdle
  /\ RcIdle
  /\ KpIdle
  /\ QpIdle
  /\ CoIdle
  /\ CvIdle
  /\ KwIdle
  /\ DuIdle
  /\ DgIdle
  /\ QtIdle
  /\ AxIdle
  /\ CmIdle
  /\ TrIdle
  /\ InIdle

CurveEvalDerivCall ==
  \E t \in Params, fp \in Flags, fp2 \in Flags :
    /\ geoCall' = [fn |-> "curve", t |-> t,
                   inRange |-> (t >= crange[1] /\ t <= crange[2]),
                   ret |-> CurveEvalDeriv(t, crange[1], crange[2], fp, fp2).fail]
    /\ UNCHANGED <<crange, srange, notGeo>>

SurfaceEvalDerivCall ==
  \E u \in Params, v \in Params, fp \in Flags, fpu \in Flags, fpv \in Flags :
    /\ geoCall' = [fn |-> "surface", u |-> u, v |-> v,
                   inRange |-> (/\ u >= srange.umin /\ u <= srange.umax
                                /\ v >= srange.vmin /\ v <= srange.vmax),
                   ret |-> SurfaceEvalDeriv(u, v, srange, fp, fpu, fpv)]
    /\ UNCHANGED <<crange, srange, notGeo>>

NextGeo == CurveEvalDerivCall \/ SurfaceEvalDerivCall

SpecGeo == InitGeo /\ [][NextGeo]_vars

\* C4: evalDeriv of a curve and of a surface returns a nonzero failure flag
\* whenever the parameter lies outside the entity's range.
OutOfRangeFails ==
  (geoCall.fn # "none" /\ ~geoCall.inRange) => geoCall.ret # 0

\* The curve's half of C4, which the code keeps.
CurveOutOfRangeFails ==
  (geoCall.fn = "curve" /\ ~geoCall.inRange) => geoCall.ret # 0

(***************************************************************************)
(* The element buffer of addRefinedSolution2D, addRefinedSolution3D and    *)
(* TMR_ComputeInterpSolution (2D and 3D): allocation, memset, the knot     *)
(* loops, the zeroing of dependent entries and the setValues call.         *)
(* Field values are small integers; what a knot loop adds at a slot is a   *)
(* fixed function of the input data (seed), zero at some slots and nonzero *)
(* at others.                                                              *)
(***************************************************************************)

\* The largest coarse mesh order tried (the smallest order is 2).
MaxMeshOrder == 3
\* The largest number of variables per node tried.
MaxVarsPerNode == 2
\* The largest number of local elements tried.
MaxElems == 2
\* The number of different input fields tried.
NumSeeds == 2

\* n to the power d, for d = 2 or 3 (order*order, order*order*order).
NodesPerElem(dim, n) == IF dim = 2 THEN n * n ELSE n * n * n

\* num_refined_nodes
NumRefinedNodes(c) == NodesPerElem(c.dim, c.refined_order)

\* The number of entries the knot loops and setValues work on.
RefExtent(c) == c.vars_per_node * NumRefinedNodes(c)

\* The length the buffer is allocated with:
\*   addRefinedSolution2D   new TacsScalar[ vars_per_node*num_refined_nodes ]
\*   addRefinedSolution3D   new TacsScalar[ vars_per_node*order*order*order ]
\*   ComputeInterpSolution  new TacsScalar[ vars_per_node*num_refined_nodes ]
RefAllocLen(c) ==
  IF c.fn = "addRefinedSolution" /\ c.dim = 3
    THEN c.vars_per_node * c.order * c.order * c.order
    ELSE c.vars_per_node * NumRefinedNodes(c)

\* refined_nodes[s] of element e: negative for a dependent slot.
RefinedNode(c, e, s) ==
  IF s \in c.dep THEN 0 - (s + 1) ELSE e * (NumRefinedNodes(c) - 1) + s

\* All node indices of the refined mesh of the call.
RefinedNodeSet(c) ==
  {RefinedNode(c, e, s) : e \in 0 .. c.nelems - 1, s \in 0 .. NumRefinedNodes(c) - 1}

\* The interpolated coarse field, sum_k N[k]*uelem[k], at slot s, variable i.
InterpPart(c, e, s, i) == ((c.seed + e + s + i) % 3) - 1

\* The enrichment part, sum_k Nr[k]*ubar[k], at slot s, variable i.
EnrichPart(c, e, s, i) == ((c.seed + 2 * s + i + 1) % 3) - 1

\* The buffer indices the knot loops add to: vars_per_node*offset + i with
\* offset = n + refined_order*m (+ refined_order*refined_order*p).
KnotLoopIndices(c) ==
  LET ro == c.refined_order
      R == 0 .. ro - 1
      P == IF c.dim = 3 THEN R ELSE {0}
  IN  {c.vars_per_node * (n + ro * m + ro * ro * p) + i :
         n \in R, m \in R, p \in P, i \in 0 .. c.vars_per_node - 1}

\* What the knot loops add at buffer index idx for element e.
KnotLoopValue(c, e, idx) ==
  LET s == idx \div c.vars_per_node
      i == idx % c.vars_per_node
  IN  IF c.fn = "ComputeInterpSolution" THEN InterpPart(c, e, s, i)
      ELSE IF c.compute_difference THEN EnrichPart(c, e, s, i)
      ELSE InterpPart(c, e, s, i) + EnrichPart(c, e, s, i)

\* The indices the loop "zero the contribution if it goes to a dependent
\* node" visits (all of them) and those it writes.
MaskLoopIndices(c) == 0 .. RefExtent(c) - 1
MaskedIndices(c, e) ==
  {idx \in 0 .. RefExtent(c) - 1 : RefinedNode(c, e, idx \div c.vars_per_node) < 0}

\* The buffer after the zeroing of dependent entries.
ZeroDependent(c, e, buf) ==
  [idx \in DOMAIN buf |-> IF idx \in MaskedIndices(c, e) THEN 0 ELSE buf[idx]]

\* TACSBVec::setValues on the raw storage: add, or insert the nonzero values.
SetOp(op, old, val) ==
  IF op = "ADD" THEN old + val ELSE IF val # 0 THEN val ELSE old

SetValuesRaw(c, e, vec, vals, op) ==
  [key \in DOMAIN vec |->
     LET hit == {s \in 0 .. NumRefinedNodes(c) - 1 : RefinedNode(c, e, s) = key[1]}
     IN  IF hit = {} THEN vec[key]
         ELSE SetOp(op, vec[key],
                    vals[c.vars_per_node * (CHOOSE s \in hit : TRUE) + key[2]])]

\* The dependent slots of an element: none, slot 1, or the first and the
\* last slot.
DepSlots(pattern, dim, refined_order) ==
  IF pattern = "none" THEN {}
  ELSE IF pattern = "inner" THEN {1}
  ELSE {0, NodesPerElem(dim, refined_order) - 1}

\* The calls tried.
RefConfigs ==
  {[fn |-> f[1], dim |-> d[1], order |-> d[2], refined_order |-> d[3],
    vars_per_node |-> v, compute_difference |-> f[2], nelems |-> ne,
    dep |-> DepSlots(dp, d[1], d[3]), seed |-> sd] :
     f \in {<<"addRefinedSolution", FALSE>>, <<"addRefinedSolution", TRUE>>,
            <<"ComputeInterpSolution", FALSE>>},
     d \in {x \in {2, 3} \X (2 .. MaxMeshOrder) \X (2 .. MaxMeshOrder + 1) :
              x[3] \in {x[2], x[2] + 1}},
     v \in 1 .. MaxVarsPerNode,
     ne \in 0 .. MaxElems,
     dp \in {"none", "inner", "ends"},
     sd \in 0 .. NumSeeds - 1}

InitRef ==
  /\ GeoIdle
  /\ RefIdle
  /\ ProgIdle
  /\ KsIdle
  /\ WtIdle
  /\ NdIdle
  /\ RcIdle
  /\ KpIdle
  /\ QpIdle
  /\ CoIdle
  /\ CvIdle
  /\ KwIdle
  /\ DuIdle
  /\ DgIdle
  /\ QtIdle
  /\ AxIdle
  /\ CmIdle
  /\ TrIdle
  /\ InIdle

\* Entry of the function: a call with its mesh data; the buffer is allocated.
RefCall ==
  /\ rpc = "idle"
  /\ \E c \in RefConfigs :
       /\ rcfg' = c
       /\ urefLen' = RefAllocLen(c)
       /\ uref' = [idx \in 0 .. RefExtent(c) - 1 |-> 0]
       /\ vecRefined' = [key \in RefinedNodeSet(c) \X (0 .. c.vars_per_node - 1) |-> 0]
  /\ rpc' = "loop"
  /\ relem' = 0
  /\ accessed' = {}
  /\ lastSet' = [op |-> "none"]
  /\ UNCHANGED notRef

\* Head of an element iteration: the coarse values are fetched and the
\* buffer is zeroed, memset(uref, 0, vars_per_node*num_refined_nodes).
RefElemZero ==
  /\ rpc = "loop"
  /\ relem < rcfg.nelems
  /\ uref' = [idx \in DOMAIN uref |-> 0]
  /\ accessed' = accessed \cup (0 .. RefExtent(rcfg) - 1)
  /\ rpc' = "zeroed"
  /\ UNCHANGED <<rcfg, relem, urefLen, lastSet, vecRefined, notRef>>

\* The loops over the refined knots, u[i] += ...
RefElemFill ==
  /\ rpc = "zeroed"
  /\ uref' = [idx \in DOMAIN uref |->
                IF idx \in KnotLoopIndices(rcfg)
                  THEN uref[idx] + KnotLoopValue(rcfg, relem, idx)
                  ELSE uref[idx]]
  /\ accessed' = accessed \cup KnotLoopIndices(rcfg)
  /\ rpc' = "filled"
  /\ UNCHANGED <<rcfg, relem, urefLen, lastSet, vecRefined, notRef>>

\* addRefinedSolution2D/3D only: zero the entries of dependent nodes.
RefElemMask ==
  /\ rpc = "filled"
  /\ rcfg.fn = "addRefinedSolution"
  /\ uref' = ZeroDependent(rcfg, relem, uref)
  /\ accessed' = accessed \cup MaskedIndices(rcfg, relem)
  /\ rpc' = "masked"
  /\ UNCHANGED <<rcfg, relem, urefLen, lastSet, vecRefined, notRef>>

\* The operation the function hands to setValues.
RefSetOp(c) == IF c.fn = "addRefinedSolution" THEN "ADD" ELSE "INSERT_NONZERO"

\* vec_refined->setValues(len, refined_nodes, uref, op). An entry beyond the
\* allocation is memory the buffer does not own: it reads as what the loops
\* left there or as anything else.
RefElemSet ==
  /\ \/ rpc = "masked"
     \/ rpc = "filled" /\ rcfg.fn = "ComputeInterpSolution"
  /\ \E intact \in BOOLEAN, g \in {0 - 1, 0, 1} :
       /\ (~intact => RefExtent(rcfg) > urefLen)
       /\ LET vals == [idx \in DOMAIN uref |->
                         IF idx < urefLen \/ intact THEN uref[idx] ELSE g]
          IN  /\ lastSet' = [op |-> RefSetOp(rcfg), elem |-> relem,
                             nodes |-> [s \in 0 .. NumRefinedNodes(rcfg) - 1 |->
                                          RefinedNode(rcfg, relem, s)],
                             vals |-> vals]
              /\ vecRefined' = SetValuesRaw(rcfg, relem, vecRefined, vals,
                                            RefSetOp(rcfg))
  /\ accessed' = accessed \cup (0 .. RefExtent(rcfg) - 1)
  /\ relem' = relem + 1
  /\ rpc' = "loop"
  /\ UNCHANGED <<rcfg, uref, urefLen, notRef>>

\* After the last element: delete [] of the buffers, and the return.
RefReturn ==
  /\ rpc = "loop"
  /\ relem = rcfg.nelems
  /\ rpc' = "returned"
  /\ UNCHANGED <<rcfg, relem, uref, urefLen, accessed, lastSet, vecRefined, notRef>>

NextRef == RefCall \/ RefElemZero \/ RefElemFill \/ RefElemMask \/ RefElemSet \/ RefReturn

SpecRef == InitRef /\ [][NextRef]_vars

\* C1: in addRefinedSolution3D every index used on the per-element refined
\* buffer lies within the buffer's allocated length, for every coarse and
\* refined order and in both branches.
RefinedBufferInBounds ==
  (rcfg.fn = "addRefinedSolution" /\ rcfg.dim = 3) =>
     \A idx \in accessed : idx < urefLen

\* C3: whenever element values are written into the refined vector, every
\* entry whose target node index is negative is zero at the setValues call.
DependentEntriesZeroAtSet ==
  lastSet.op # "none" =>
     \A idx \in DOMAIN lastSet.vals :
        lastSet.nodes[idx \div rcfg.vars_per_node] < 0 => lastSet.vals[idx] = 0

(***************************************************************************)
(* The distributed-vector protocol.  Each routine is written out as the    *)
(* sequence of statements it executes on distributed vectors, per-element  *)
(* work arrays and collaborators, in source order with its loops expanded  *)
(* over the elements; the state machine executes one statement per step.   *)
(***************************************************************************)

\* The largest number of auxiliary elements in the assembler's container.
MaxAux == 2

\* One statement: the operation, the vector (or collaborator datum) it acts
\* on, the work array involved and the element index.
I(op, v, b, a) == [op |-> op, v |-> v, b |-> b, a |-> a]

RECURSIVE Flatten(_)
Flatten(ss) == IF Len(ss) = 0 THEN <<>> ELSE Head(ss) \o Flatten(Tail(ss))

\* An element loop that takes an empty list for no list at all and visits
\* every element.
ForElemsAllWhenEmpty(elems, body) ==
  IF Len(elems) = 0
    THEN Flatten([k \in 1 .. MaxElems |-> body[k - 1]])
    ELSE Flatten([k \in 1 .. Len(elems) |-> body[elems[k]]])

\* A loop over a list of element numbers with the given body.
ForElems(elems, body) == Flatten([k \in 1 .. Len(elems) |-> body[elems[k]]])

\* The element numbers a loop body may be given.
ElemIds == 0 .. MaxElems - 1

\* for ( i = 0; i < n; i++ )
AllElems(n) == [k \in 1 .. n |-> k - 1]

\* vec = createVec() / new TACSBVec(...), followed by vec->incref()
NewVec(v) == <<I("create", v, "", 0), I("incref", v, "", 0)>>

\* A finalize that is begun and never ended.
FinalizeUnclosed(v) == <<I("beginSetValues", v, "", 0)>>

\* beginSetValues / endSetValues
Finalize(v) == <<I("beginSetValues", v, "", 0), I("endSetValues", v, "", 0)>>

\* beginDistributeValues / endDistributeValues
Distribute(v) ==
  <<I("beginDistributeValues", v, "", 0), I("endDistributeValues", v, "", 0)>>

\* A weight computation that returns before the finalize and the distribute
\* on a process that has no element to add.
computeLocalWeightsIfAny(weights, elems) ==
  <<I("zeroEntries", weights, "", 0)>>
  \o ForElems(elems, [e \in ElemIds |-> <<I("setValues", weights, "welem", e)>>])
  \o (IF Len(elems) = 0 THEN <<>> ELSE Finalize(weights) \o Distribute(weights))

\* computeLocalWeights(tacs, weights, element_nums, num_elements)
computeLocalWeights(weights, elems) ==
  <<I("zeroEntries", weights, "", 0)>>
  \o ForElems(elems, [e \in ElemIds |-> <<I("setValues", weights, "welem", e)>>])
  \o Finalize(weights)
  \o Distribute(weights)

\* A nodal-derivative pass that stops after the finalize and leaves the
\* derivatives undistributed.
computeNodeDerivUndistributed(uvec, weights, uderiv, elems) ==
  <<I("zeroEntries", uderiv, "", 0)>>
  \o ForElems(elems, [e \in ElemIds |-> <<I("getValues", weights, "welem", e),
                                  I("getValues", uvec, "uelem", e),
                                  I("setValues", uderiv, "delem", e)>>])
  \o Finalize(uderiv)

\* computeNodeDeriv2D / computeNodeDeriv3D (the same statements on vectors)
computeNodeDeriv(uvec, weights, uderiv, elems) ==
  <<I("zeroEntries", uderiv, "", 0)>>
  \o ForElems(elems, [e \in ElemIds |-> <<I("getValues", weights, "welem", e),
                                  I("getValues", uvec, "uelem", e),
                                  I("setValues", uderiv, "delem", e)>>])
  \o Finalize(uderiv)
  \o Distribute(uderiv)

\* addRefinedSolution2D / addRefinedSolution3D, either branch
addRefinedSolution(vec, vecDeriv, vec_refined, elems) ==
  ForElems(elems, [e \in ElemIds |-> <<I("getValues", vec, "uelem", e),
                               I("getValues", vecDeriv, "delem", e),
                               I("computeElemRecon", "", "uelem", e),
                               I("setValues", vec_refined, "uref", e)>>])

\* if (!_uvec){ uvec = createVec(); incref(); tacs->getVariables(uvec); }
OptionalSolution(c) ==
  IF c.has_uvec THEN <<>>
  ELSE NewVec("uvec") \o <<I("getVariables", "uvec", "", 0)>>

\* if (!_uvec_refined){ uvec_refined = createVec(); incref(); }
OptionalRefined(c) ==
  IF c.has_refined THEN <<>> ELSE NewVec("uvec_refined")

\* if (!_uvec){ uvec->decref(); }
\* if (!_uvec_refined){ setVariables(uvec_refined); uvec_refined->decref(); }
ReleaseOptional(c) ==
  (IF c.has_uvec THEN <<>> ELSE <<I("decref", "uvec", "", 0)>>)
  \o (IF c.has_refined THEN <<>>
      ELSE <<I("setVariables", "uvec_refined", "", 0),
             I("decref", "uvec_refined", "", 0)>>)

\* TMR_ComputeInterpSolution; only the 2D version distributes uvec_refined
TMR_ComputeInterpSolution(c) ==
  OptionalSolution(c)
  \o OptionalRefined(c)
  \o <<I("zeroEntries", "uvec_refined", "", 0)>>
  \o Distribute("uvec")
  \o ForElems(AllElems(c.nelems),
              [e \in ElemIds |-> <<I("memset", "", "vars_interp", e),
                           I("getValues", "uvec", "vars_elem", e),
                           I("setValues", "uvec_refined", "vars_interp", e)>>])
  \o Finalize("uvec_refined")
  \o (IF c.dim = 2 THEN Distribute("uvec_refined") ELSE <<>>)
  \o ReleaseOptional(c)
  \o <<I("return", "", "", 0)>>

\* TMR_ComputeReconSolution (2D over face names, 3D over volume names)
TMR_ComputeReconSolution(c) ==
  OptionalSolution(c)
  \o OptionalRefined(c)
  \o <<I("zeroEntries", "uvec_refined", "", 0)>>
  \o Distribute("uvec")
  \o NewVec("uderiv")
  \o NewVec("weights")
  \o Flatten([g \in 1 .. Len(c.groups) |->
                computeLocalWeights("weights", c.groups[g])
                \o computeNodeDeriv("uvec", "weights", "uderiv", c.groups[g])
                \o addRefinedSolution("uvec", "uderiv", "uvec_refined",
                                      c.groups[g])])
  \o <<I("decref", "weights", "", 0)>>
  \o Finalize("uvec_refined")
  \o NewVec("weights_refined")
  \o computeLocalWeights("weights_refined", AllElems(c.nelems))
  \o <<I("getArray", "uvec_refined", "", 0),
       I("getArray", "weights_refined", "", 0),
       I("writeArray", "uvec_refined", "", 0),
       I("decref", "weights_refined", "", 0)>>
  \o ReleaseOptional(c)
  \o <<I("return", "", "", 0)>>

\* TMR_StrainEnergyErrorEst.  The 2D version loads the coarse element
\* variables into vars_elem and hands vars_interp to computeEnergies; the 3D
\* version never fills vars_elem and hands vars_elem to computeEnergies.
TMR_StrainEnergyErrorEst(c) ==
  (IF c.dim = 2 THEN <<I("memset", "", "dvars", 0)>> ELSE <<>>)
  \o NewVec("uvec")
  \o <<I("getVariables", "uvec", "", 0)>>
  \o Distribute("uvec")
  \o NewVec("weights")
  \o computeLocalWeights("weights", AllElems(c.nelems))
  \o NewVec("uderiv")
  \o computeNodeDeriv("uvec", "weights", "uderiv", AllElems(c.nelems))
  \o <<I("decref", "weights", "", 0)>>
  \o ForElems(AllElems(c.nelems),
              [e \in ElemIds |->
                (IF c.dim = 2 THEN <<I("getElementVars", "", "vars_elem", e)>>
                              ELSE <<>>)
                \o <<I("getValues", "uderiv", "delem", e),
                     I("computeElemRecon", "", "vars_elem", e),
                     I("memset", "", "vars_interp", e),
                     I("fillEnrich", "", "vars_interp", e),
                     I("computeEnergies", "Pe",
                       IF c.dim = 2 THEN "vars_interp" ELSE "vars_elem", e)>>])
  \o <<I("allreduce", "", "", 0),
       I("decref", "uvec", "", 0),
       I("decref", "uderiv", "", 0),
       I("return", "", "", 0)>>

\* The auxiliary elements visited for element e by
\* while (aux_count < num_aux_elems && aux[aux_count].num == elem)
AuxOfElem(c, e) ==
  IF c.has_aux
    THEN SelectSeq(SortSeq(c.aux, LAMBDA x, y : x < y), LAMBDA x : x = e)
    ELSE <<>>

\* TMR_AdjointErrorEst (2D and 3D execute the same statements)
TMR_AdjointErrorEst(c) ==
  NewVec("nodal_error")
  \o <<I("beginDistributeValues", "solution_refined", "", 0),
       I("beginDistributeValues", "adjoint_refined", "", 0),
       I("endDistributeValues", "solution_refined", "", 0),
       I("endDistributeValues", "adjoint_refined", "", 0)>>
  \o (IF c.has_aux THEN <<I("sort", "", "", 0)>> ELSE <<>>)
  \o ForElems(AllElems(c.nelems),
              [e \in ElemIds |->
                <<I("getValues", "solution_refined", "vars_interp", e),
                  I("getValues", "adjoint_refined", "adj_interp", e),
                  I("memset", "", "err", e),
                  I("addLocalizedError", "", "err", e)>>
                \o [k \in 1 .. Len(AuxOfElem(c, e)) |->
                      I("addLocalizedError", "", "err", e)]
                \o <<I("setValues", "nodal_error", "err", e)>>])
  \o Finalize("nodal_error")
  \o Distribute("nodal_error")
  \o ForElems(AllElems(c.nelems),
              [e \in ElemIds |-> <<I("getValues", "nodal_error", "err", e)>>])
  \o <<I("allreduce", "", "", 0),
       I("decref", "nodal_error", "", 0),
       I("return", "", "", 0)>>

\* TMRStressConstraint::TMRStressConstraint
StressConstraintCtor(c) ==
  NewVec("uvec")
  \o NewVec("weights")
  \o computeLocalWeights("weights", AllElems(c.nelems))
  \o NewVec("uderiv")
  \o NewVec("dfduderiv")

\* TMRStressConstraint::evalConstraint
StressEvalConstraint(c) ==
  <<I("copyValues", "uvec", "", 0)>>
  \o Distribute("uvec")
  \o computeNodeDeriv("uvec", "weights", "uderiv", AllElems(c.nelems))
  \o ForElems(AllElems(c.nelems),
              [e \in ElemIds |-> <<I("getValues", "uvec", "vars", e),
                           I("getValues", "uderiv", "varderiv", e),
                           I("failure", "", "", e)>>])
  \o <<I("allreduce", "", "", 0)>>
  \o ForElems(AllElems(c.nelems),
              [e \in ElemIds |-> <<I("getValues", "uvec", "vars", e),
                           I("getValues", "uderiv", "varderiv", e),
                           I("failure", "", "", e)>>])
  \o <<I("allreduce", "", "", 0), I("return", "", "", 0)>>

\* evalConDeriv with the transpose-projector loop placed before the
\* finalize and distribute of dfduderiv.
StressEvalConDerivEarlyRead(c) ==
  <<I("zeroEntries", "dfdu", "", 0), I("zeroEntries", "dfduderiv", "", 0)>>
  \o ForElems(AllElems(c.nelems),
              [e \in ElemIds |-> <<I("getValues", "weights", "welem", e),
                           I("getValues", "uvec", "vars", e),
                           I("getValues", "uderiv", "varderiv", e),
                           I("failure", "", "", e),
                           I("setValues", "dfdu", "dfdu_elem", e),
                           I("setValues", "dfdu", "dfdu_elem", e),
                           I("setValues", "dfduderiv", "dfduderiv_elem", e)>>])
  \o ForElems(AllElems(c.nelems),
              [e \in ElemIds |-> <<I("getValues", "weights", "welem", e),
                           I("getValues", "dfduderiv", "dfduderiv_elem", e),
                           I("setValues", "dfdu", "dfdu_elem", e)>>])
  \o Finalize("dfduderiv")
  \o Distribute("dfduderiv")
  \o Finalize("dfdu")
  \o <<I("applyBCs", "dfdu", "", 0), I("return", "", "", 0)>>

\* TMRStressConstraint::evalConDeriv
StressEvalConDeriv(c) ==
  <<I("zeroEntries", "dfdu", "", 0), I("zeroEntries", "dfduderiv", "", 0)>>
  \o ForElems(AllElems(c.nelems),
              [e \in ElemIds |-> <<I("getValues", "weights", "welem", e),
                           I("getValues", "uvec", "vars", e),
                           I("getValues", "uderiv", "varderiv", e),
                           I("failure", "", "", e),
                           I("setValues", "dfdu", "dfdu_elem", e),
                           I("setValues", "dfdu", "dfdu_elem", e),
                           I("setValues", "dfduderiv", "dfduderiv_elem", e)>>])
  \o Finalize("dfduderiv")
  \o Distribute("dfduderiv")
  \o ForElems(AllElems(c.nelems),
              [e \in ElemIds |-> <<I("getValues", "weights", "welem", e),
                           I("getValues", "dfduderiv", "dfduderiv_elem", e),
                           I("setValues", "dfdu", "dfdu_elem", e)>>])
  \o Finalize("dfdu")
  \o <<I("applyBCs", "dfdu", "", 0), I("return", "", "", 0)>>

\* TMRCurvatureConstraint::init
CurvatureInit(c) ==
  NewVec("weights")
  \o ForElems(AllElems(c.nelems),
              [e \in ElemIds |-> <<I("setValues", "weights", "welem", e)>>])
  \o Finalize("weights")
  \o Distribute("weights")
  \o NewVec("xvec")
  \o NewVec("xderiv")
  \o NewVec("dfderiv")

\* TMRCurvatureConstraint::computeNodeDeriv
CurvatureComputeNodeDeriv(c) ==
  <<I("zeroEntries", "xderiv", "", 0)>>
  \o ForElems(AllElems(c.nelems),
              [e \in ElemIds |-> <<I("getValues", "weights", "elem_weights", e),
                           I("getValues", "xvec", "elem_vals", e),
                           I("setValues", "xderiv", "elem_derivs", e)>>])
  \o Finalize("xderiv")
  \o Distribute("xderiv")

\* TMRCurvatureConstraint::evalConstraint
CurvatureEvalConstraint(c) ==
  <<I("getArray", "xvec", "", 0), I("writeArray", "xvec", "", 0)>>
  \o Distribute("xvec")
  \o CurvatureComputeNodeDeriv(c)
  \o ForElems(AllElems(c.nelems),
              [e \in ElemIds |-> <<I("getValues", "xvec", "elem_vals", e),
                           I("getValues", "xderiv", "elem_derivs", e)>>])
  \o <<I("allreduce", "", "", 0)>>
  \o ForElems(AllElems(c.nelems),
              [e \in ElemIds |-> <<I("getValues", "xvec", "elem_vals", e),
                           I("getValues", "xderiv", "elem_derivs", e)>>])
  \o <<I("allreduce", "", "", 0), I("return", "", "", 0)>>

\* The largest number of methods called on one constraint object.
MaxCalls == 2

ProgFns == {"TMR_ComputeInterpSolution", "TMR_ComputeReconSolution",
            "TMR_StrainEnergyErrorEst", "TMR_AdjointErrorEst",
            "TMRStressConstraint", "TMRCurvatureConstraint"}

\* The methods called on a constraint object after its construction.
StressMethod(c, name) ==
  IF name = "evalConstraint" THEN StressEvalConstraint(c)
                             ELSE StressEvalConDeriv(c)

\* The statements of the run described by c.
Program(c) ==
  CASE c.fn = "TMR_ComputeInterpSolution" -> TMR_ComputeInterpSolution(c)
    [] c.fn = "TMR_ComputeReconSolution" -> TMR_ComputeReconSolution(c)
    [] c.fn = "TMR_StrainEnergyErrorEst" -> TMR_StrainEnergyErrorEst(c)
    [] c.fn = "TMR_AdjointErrorEst" -> TMR_AdjointErrorEst(c)
    [] c.fn = "TMRStressConstraint" ->
         StressConstraintCtor(c)
         \o Flatten([k \in 1 .. Len(c.calls) |-> StressMethod(c, c.calls[k])])
    [] c.fn = "TMRCurvatureConstraint" ->
         CurvatureInit(c)
         \o Flatten([k \in 1 .. Len(c.calls) |-> CurvatureEvalConstraint(c)])

\* The element number lists of the name groups of a forest with n elements:
\* one name holding every element, or two names splitting them (either group
\* may be empty).
NameGroups(n) ==
  {<<AllElems(n)>>}
  \cup {<<SubSeq(AllElems(n), 1, k), SubSeq(AllElems(n), k + 1, n)>> :
          k \in 0 .. n}

\* The element numbers of the auxiliary elements, in container order.
AuxLists(nelems) == UNION {[1 .. n -> 0 .. nelems - 1] : n \in 0 .. MaxAux}

CallLists(names) == UNION {[1 .. n -> names] : n \in 1 .. MaxCalls}

Config(fn, dim, nelems, has_uvec, has_refined, groups, has_aux, aux, calls) ==
  [fn |-> fn, dim |-> dim, nelems |-> nelems, has_uvec |-> has_uvec,
   has_refined |-> has_refined, groups |-> groups, has_aux |-> has_aux,
   aux |-> aux, calls |-> calls]

ProgConfigs ==
  {Config("TMR_ComputeInterpSolution", d, n, hu, hr, <<>>, FALSE, <<>>, <<>>) :
     d \in {2, 3}, n \in 0 .. MaxElems, hu \in BOOLEAN, hr \in BOOLEAN}
  \cup UNION {{Config("TMR_ComputeReconSolution", d, n, hu, hr, g,
                      FALSE, <<>>, <<>>) :
                 d \in {2, 3}, hu \in BOOLEAN, hr \in BOOLEAN,
                 g \in NameGroups(n)} : n \in 0 .. MaxElems}
  \cup {Config("TMR_StrainEnergyErrorEst", d, n, FALSE, FALSE, <<>>,
               FALSE, <<>>, <<>>) : d \in {2, 3}, n \in 0 .. MaxElems}
  \cup UNION {{Config("TMR_AdjointErrorEst", d, n, FALSE, FALSE, <<>>, ha,
                      IF ha THEN x ELSE <<>>, <<>>) :
                 d \in {2, 3}, ha \in BOOLEAN, x \in AuxLists(n)} :
              n \in 0 .. MaxElems}
  \cup {Config("TMRStressConstraint", 3, n, FALSE, FALSE, <<>>, FALSE, <<>>, cl) :
          n \in 0 .. MaxElems,
          cl \in CallLists({"evalConstraint", "evalConDeriv"})}
  \cup {Config("TMRCurvatureConstraint", 3, n, FALSE, FALSE, <<>>, FALSE, <<>>,
               cl) :
          n \in 0 .. MaxElems, cl \in CallLists({"evalConstraint"})}

VecNames == {"uvec", "uvec_refined", "uderiv", "weights", "weights_refined",
             "nodal_error", "solution_refined", "adjoint_refined",
             "dfdu", "dfduderiv", "xvec", "xderiv", "dfderiv"}

BufNames == {"welem", "uelem", "delem", "uref", "ubar", "vars_elem",
             "vars_interp", "dvars", "err", "adj_interp", "vars", "varderiv",
             "dfdu_elem", "dfduderiv_elem", "elem_weights", "elem_vals",
             "elem_derivs"}

\* A vector that does not exist yet.
Absent == [own |-> "none", ref |-> 0, ref0 |-> 0, incs |-> 0, decs |-> 0,
           phase |-> "idle", dirty |-> FALSE]

\* A vector the caller passes in, holding one reference; dirty tells whether
\* it was written since its values were last distributed.
Supplied(dirty) == [own |-> "caller", ref |-> 1, ref0 |-> 1, incs |-> 0,
                    decs |-> 0, phase |-> "idle", dirty |-> dirty]

\* The vectors the caller passes to the run described by c.
SuppliedVecs(c) ==
  CASE c.fn \in {"TMR_ComputeInterpSolution", "TMR_ComputeReconSolution"} ->
         (IF c.has_uvec THEN {"uvec"} ELSE {})
         \cup (IF c.has_refined THEN {"uvec_refined"} ELSE {})
    [] c.fn = "TMR_AdjointErrorEst" -> {"solution_refined", "adjoint_refined"}
    [] c.fn = "TMRStressConstraint" -> {"dfdu"}
    [] OTHER -> {}

Uninit == [kind |-> "uninit", elem |-> 0 - 1]
Values(e) == [kind |-> "values", elem |-> e]

Running == ppc <= Len(prog)
Cur == prog[ppc]

\* What is remembered of the statement just executed.
Did(ins, before) ==
  [op |-> ins.op, v |-> ins.v, b |-> ins.b, a |-> ins.a,
   phase |-> before.phase, dirty |-> before.dirty]

InitProg ==
  /\ GeoIdle
  /\ RefIdle
  /\ ProgIdle
  /\ KsIdle
  /\ WtIdle
  /\ NdIdle
  /\ RcIdle
  /\ KpIdle
  /\ QpIdle
  /\ CoIdle
  /\ CvIdle
  /\ KwIdle
  /\ DuIdle
  /\ DgIdle
  /\ QtIdle
  /\ AxIdle
  /\ CmIdle
  /\ TrIdle
  /\ InIdle

\* A routine is entered (or a constraint object is constructed and used).
ProgCall ==
  /\ ~Running
  /\ \E c \in ProgConfigs, d \in BOOLEAN :
       /\ pcfg' = c
       /\ prog' = Program(c)
       /\ vecs' = [v \in VecNames |->
                     IF v \in SuppliedVecs(c) THEN Supplied(d) ELSE Absent]
       /\ collab' = [present |-> c.has_aux, list |-> c.aux]
  /\ ppc' = 1
  /\ bufs' = [b \in BufNames |-> Uninit]
  /\ last' = [op |-> "call"]
  /\ energy' = [called |-> FALSE]
  /\ UNCHANGED notProg

\* The frame of a statement that only touches one vector.
VecFrame == UNCHANGED <<pcfg, prog, bufs, energy, collab, notProg>>

\* new TACSBVec / createVec
VecCreate ==
  /\ Running /\ Cur.op = "create"
  /\ vecs' = [vecs EXCEPT ![Cur.v] = [Absent EXCEPT !.own = "routine"]]
  /\ last' = Did(Cur, vecs[Cur.v])
  /\ ppc' = ppc + 1
  /\ VecFrame

\* vec->incref()
VecIncref ==
  /\ Running /\ Cur.op = "incref"
  /\ vecs' = [vecs EXCEPT ![Cur.v].ref = @ + 1, ![Cur.v].incs = @ + 1]
  /\ last' = Did(Cur, vecs[Cur.v])
  /\ ppc' = ppc + 1
  /\ VecFrame

\* vec->decref()
VecDecref ==
  /\ Running /\ Cur.op = "decref"
  /\ vecs' = [vecs EXCEPT ![Cur.v].ref = @ - 1, ![Cur.v].decs = @ + 1]
  /\ last' = Did(Cur, vecs[Cur.v])
  /\ ppc' = ppc + 1
  /\ VecFrame

WriteOps == {"zeroEntries", "setValues", "copyValues", "getVariables",
             "writeArray", "applyBCs"}

\* A write into the local part of a vector: its shared values are stale
\* until the next distribute.
VecWrite ==
  /\ Running /\ Cur.op \in WriteOps
  /\ vecs' = [vecs EXCEPT ![Cur.v].dirty = TRUE]
  /\ last' = Did(Cur, vecs[Cur.v])
  /\ ppc' = ppc + 1
  /\ VecFrame

\* vec->beginSetValues(op)
VecBeginSetValues ==
  /\ Running /\ Cur.op = "beginSetValues"
  /\ vecs' = [vecs EXCEPT ![Cur.v].phase = "set"]
  /\ last' = Did(Cur, vecs[Cur.v])
  /\ ppc' = ppc + 1
  /\ VecFrame

\* vec->endSetValues(op): the finalize-add lands in the owners' entries.
VecEndSetValues ==
  /\ Running /\ Cur.op = "endSetValues"
  /\ vecs' = [vecs EXCEPT ![Cur.v].phase = "idle", ![Cur.v].dirty = TRUE]
  /\ last' = Did(Cur, vecs[Cur.v])
  /\ ppc' = ppc + 1
  /\ VecFrame

\* vec->beginDistributeValues()
VecBeginDistribute ==
  /\ Running /\ Cur.op = "beginDistributeValues"
  /\ vecs' = [vecs EXCEPT ![Cur.v].phase = "dist"]
  /\ last' = Did(Cur, vecs[Cur.v])
  /\ ppc' = ppc + 1
  /\ VecFrame

\* vec->endDistributeValues(): the shared values are current again.
VecEndDistribute ==
  /\ Running /\ Cur.op = "endDistributeValues"
  /\ vecs' = [vecs EXCEPT ![Cur.v].phase = "idle",
                          ![Cur.v].dirty = (vecs[Cur.v].phase # "dist"
                                            /\ vecs[Cur.v].dirty)]
  /\ last' = Did(Cur, vecs[Cur.v])
  /\ ppc' = ppc + 1
  /\ VecFrame

\* vec->getValues(len, nodes, array): the element's values land in the array.
VecGetValues ==
  /\ Running /\ Cur.op = "getValues"
  /\ bufs' = [bufs EXCEPT ![Cur.b] = Values(Cur.a)]
  /\ last' = Did(Cur, vecs[Cur.v])
  /\ ppc' = ppc + 1
  /\ UNCHANGED <<pcfg, prog, vecs, energy, collab, notProg>>

\* vec->getArray(&ptr), tacs->setVariables(vec): the local part is read.
VecReadLocal ==
  /\ Running /\ Cur.op \in {"getArray", "setVariables"}
  /\ last' = Did(Cur, vecs[Cur.v])
  /\ ppc' = ppc + 1
  /\ UNCHANGED <<pcfg, prog, vecs, bufs, energy, collab, notProg>>

\* What a statement on a work array leaves in it.
Stored(ins) ==
  CASE ins.op = "memset" -> [kind |-> "zero", elem |-> 0 - 1]
    [] ins.op = "getElementVars" -> Values(ins.a)
    [] ins.op = "fillEnrich" ->
         IF bufs["ubar"] = [kind |-> "recon", elem |-> ins.a]
            /\ bufs[ins.b].kind = "zero"
           THEN [kind |-> "refined", elem |-> ins.a]
           ELSE [kind |-> "garbage", elem |-> ins.a]

\* memset, tacs->getElement(i, NULL, vars_elem), the knot loops that add
\* the enrichment part of the reconstruction
BufStore ==
  /\ Running /\ Cur.op \in {"memset", "getElementVars", "fillEnrich"}
  /\ bufs' = [bufs EXCEPT ![Cur.b] = Stored(Cur)]
  /\ last' = Did(Cur, Absent)
  /\ ppc' = ppc + 1
  /\ UNCHANGED <<pcfg, prog, vecs, energy, collab, notProg>>

\* computeElemRecon2D/3D(..., uelem, delem, ubar, tmp): ubar is the
\* reconstruction of the element whose values and derivatives it is given.
ComputeElemRecon ==
  /\ Running /\ Cur.op = "computeElemRecon"
  /\ bufs' = [bufs EXCEPT !["ubar"] =
                IF bufs[Cur.b] = Values(Cur.a) /\ bufs["delem"] = Values(Cur.a)
                  THEN [kind |-> "recon", elem |-> Cur.a]
                  ELSE [kind |-> "garbage", elem |-> Cur.a]]
  /\ last' = Did(Cur, Absent)
  /\ ppc' = ppc + 1
  /\ UNCHANGED <<pcfg, prog, vecs, energy, collab, notProg>>

\* What the callee sees in an array: an array that was never written by the
\* routine holds whatever the allocation left there.
Seen(b, g) == IF bufs[b].kind = "uninit"
                THEN [kind |-> g, elem |-> 0 - 1] ELSE bufs[b]

\* elem->computeEnergies(time, &Te, &Pe, Xpts, vars, dvars);
\* error[i] = fabs(TacsRealPart(Pe));
ComputeEnergies ==
  /\ Running /\ Cur.op = "computeEnergies"
  /\ \E g1 \in {"garbage", "zero"}, g2 \in {"garbage", "zero"} :
       energy' = [called |-> TRUE, elem |-> Cur.a, array |-> Cur.b,
                  vars |-> Seen(Cur.b, g1), dvars |-> Seen("dvars", g2),
                  indicator |-> Cur.v]
  /\ last' = Did(Cur, Absent)
  /\ ppc' = ppc + 1
  /\ UNCHANGED <<pcfg, prog, vecs, bufs, collab, notProg>>

\* aux_elements->sort(): the container's entries are put in element order.
AuxSort ==
  /\ Running /\ Cur.op = "sort"
  /\ collab' = [collab EXCEPT !.list = SortSeq(@, LAMBDA x, y : x < y)]
  /\ last' = Did(Cur, Absent)
  /\ ppc' = ppc + 1
  /\ UNCHANGED <<pcfg, prog, vecs, bufs, energy, notProg>>

\* addLocalizedError, con->failure, MPI_Allreduce: calls that read the
\* collaborators and change none of the modelled state.
CollabRead ==
  /\ Running /\ Cur.op \in {"addLocalizedError", "failure", "allreduce"}
  /\ last' = Did(Cur, Absent)
  /\ ppc' = ppc + 1
  /\ UNCHANGED <<pcfg, prog, vecs, bufs, energy, collab, notProg>>

\* The routine returns.
ProgReturn ==
  /\ Running /\ Cur.op = "return"
  /\ last' = Did(Cur, Absent)
  /\ ppc' = ppc + 1
  /\ UNCHANGED <<pcfg, prog, vecs, bufs, energy, collab, notProg>>

NextProg ==
  \/ ProgCall \/ VecCreate \/ VecIncref \/ VecDecref \/ VecWrite
  \/ VecBeginSetValues \/ VecEndSetValues
  \/ VecBeginDistribute \/ VecEndDistribute
  \/ VecGetValues \/ VecReadLocal \/ BufStore \/ ComputeElemRecon
  \/ ComputeEnergies \/ AuxSort \/ CollabRead \/ ProgReturn

SpecProg == InitProg /\ [][NextProg]_vars

EstimatorFns == {"TMR_ComputeReconSolution", "TMR_ComputeInterpSolution",
                 "TMR_StrainEnergyErrorEst", "TMR_AdjointErrorEst"}

\* C2: in both the 2D and the 3D strain-energy estimator the array handed to
\* computeEnergies for element i holds the refined field built for element i,
\* and the element indicator is taken from the potential energy of that call.
EnergyOfRefinedField ==
  energy.called =>
     /\ energy.vars = [kind |-> "refined", elem |-> energy.elem]
     /\ energy.indicator = "Pe"

\* C5: a getValues read of a vector happens only when the vector's most
\* recent write has been followed by a completed begin/endDistributeValues.
ReadsFollowDistribute ==
  last.op = "getValues" => ~last.dirty

ReadsFollowDistributeSeen ==
  /\ last.op = "getValues"
  /\ last.v = "dfduderiv"
  /\ pcfg.fn = "TMRStressConstraint"
  /\ ~last.dirty

\* The operations that must find the vector outside any begin/end pair.
OutsidePairOps ==
  {"beginSetValues", "beginDistributeValues", "getValues", "getArray",
   "setVariables"} \cup WriteOps

\* C6: for each vector, between a beginSetValues (beginDistributeValues) and
\* its endSetValues (endDistributeValues) no other begin, read or write
\* touches that vector, and every begin has met its end when the routine
\* returns; two different vectors may have their distributes in flight.
BeginEndWellNested ==
  /\ last.op = "endSetValues" => last.phase = "set"
  /\ last.op = "endDistributeValues" => last.phase = "dist"
  /\ last.op \in OutsidePairOps => last.phase = "idle"
  /\ last.op = "return" => \A v \in VecNames : vecs[v].phase = "idle"

TwoDistributesInFlight ==
  /\ pcfg.fn = "TMR_AdjointErrorEst"
  /\ vecs["solution_refined"].phase = "dist"
  /\ vecs["adjoint_refined"].phase = "dist"

\* C8: when one of the four routines returns, every vector it created has as
\* many decrefs as increfs, and every caller-supplied vector has the
\* reference count it came with.
ReferencesBalanced ==
  (last.op = "return" /\ pcfg.fn \in EstimatorFns) =>
     \A v \in VecNames :
        /\ vecs[v].own = "routine" => vecs[v].incs = vecs[v].decs
        /\ vecs[v].own = "caller" => vecs[v].ref = vecs[v].ref0

\* C9: during an estimator or functional evaluation the assembler's
\* auxiliary-element container stays as the caller left it.
CollaboratorsUntouched ==
  pcfg.fn \in {"TMR_StrainEnergyErrorEst", "TMR_AdjointErrorEst",
               "TMRStressConstraint"} =>
     collab.list = pcfg.aux

\* The index of the first statement of the call the last executed statement
\* belongs to: the one after the latest earlier return.
CallStart ==
  LET rets == {j \in 1 .. (ppc - 2) : prog[j].op = "return"}
  IN  IF rets = {} THEN 1 ELSE 1 + CHOOSE j \in rets : \A x \in rets : x <= j

\* The statements of that call executed so far that are the operation op on
\* vector v, by their index in the program.
Executed(op, v) ==
  {i \in CallStart .. (ppc - 1) : prog[i].op = op /\ prog[i].v = v}

\* C14: in evalConDeriv, (a) when the transpose-projector loop reads
\* dfduderiv, every element addition to dfduderiv of the call has been made,
\* then finalized, then distributed; (b) every addition to dfdu of the call
\* (direct, enrichment chain, transpose projector) precedes the finalize of
\* dfdu; (c) the boundary conditions are applied to dfdu only after that
\* finalize has completed.
SensitivityOrder ==
  pcfg.fn = "TMRStressConstraint" =>
    /\ \A i \in Executed("getValues", "dfduderiv") :
         \E b \in Executed("beginSetValues", "dfduderiv"),
            j \in Executed("endSetValues", "dfduderiv"),
            k \in Executed("endDistributeValues", "dfduderiv") :
           /\ b < j /\ j < k /\ k < i
           /\ \A s \in Executed("setValues", "dfduderiv") : s < b
    /\ \A i \in Executed("beginSetValues", "dfdu") :
         \A s \in Executed("setValues", "dfdu") : s < i
    /\ \A i \in Executed("applyBCs", "dfdu") :
         /\ \E j \in Executed("endSetValues", "dfdu") : j < i
         /\ \A s \in Executed("setValues", "dfdu")
                     \cup Executed("beginSetValues", "dfdu")
                     \cup Executed("endSetValues", "dfdu") : s < i

\* evalConDeriv has applied the boundary conditions on a process with two
\* elements, after the three kinds of additions to dfdu and the reads of
\* dfduderiv.
SensitivityOrderSeen ==
  /\ pcfg.fn = "TMRStressConstraint"
  /\ pcfg.nelems = 2
  /\ last.op = "applyBCs"
  /\ last.v = "dfdu"
  /\ Cardinality(Executed("getValues", "dfduderiv")) = 2
  /\ Cardinality(Executed("setValues", "dfdu")) = 6

\* The g-th smallest member of a set of statement indices.
NthOf(zs, g) == CHOOSE z \in zs : Cardinality({y \in zs : y < z}) = g - 1

\* The statements executed so far in the iteration of the loop over the
\* names for the g-th name of TMR_ComputeReconSolution: from the zeroEntries
\* of computeLocalWeights to the next one (or to the release of the weights).
NameIteration(g) ==
  LET zs == Executed("zeroEntries", "weights")
      ends == Executed("decref", "weights")
      to == IF Cardinality(zs) > g THEN NthOf(zs, g + 1)
            ELSE IF ends # {} THEN CHOOSE z \in ends : TRUE
            ELSE ppc
  IN  IF Cardinality(zs) < g THEN {} ELSE NthOf(zs, g) .. (to - 1)

\* C17: in TMR_ComputeReconSolution a name for which the forest yields no
\* elements is an empty group: its iteration reads no element and adds
\* nothing to any vector, the loop goes on to the remaining names, and the
\* routine returns.
EmptyGroupAddsNothing ==
  pcfg.fn = "TMR_ComputeReconSolution" =>
    /\ \A g \in 1 .. Len(pcfg.groups) :
         Len(pcfg.groups[g]) = 0 =>
           \A i \in NameIteration(g) :
             prog[i].op \notin {"setValues", "getValues"}
    /\ Cardinality(Executed("zeroEntries", "weights")) <= Len(pcfg.groups)
    /\ last.op = "return" =>
         /\ Cardinality(Executed("zeroEntries", "weights")) = Len(pcfg.groups)
         /\ Cardinality(Executed("setValues", "uvec_refined")) = pcfg.nelems

\* The routine has returned on a forest whose first name has no element
\* and whose second name has two: the first iteration added nothing, the
\* second added both elements.
EmptyGroupThenElements ==
  /\ pcfg.fn = "TMR_ComputeReconSolution"
  /\ Len(pcfg.groups) = 2
  /\ Len(pcfg.groups[1]) = 0
  /\ Len(pcfg.groups[2]) = 2
  /\ last.op = "return"
  /\ Cardinality(Executed("setValues", "uvec_refined")) = 2

\* C19: when TMR_ComputeInterpSolution has returned, in 2D and in 3D, the
\* refined vector has been zeroed, then filled by the element writes, then
\* finalized, then distributed, in that order.
InterpZeroFillFinalizeDistribute ==
  (pcfg.fn = "TMR_ComputeInterpSolution" /\ ppc > 1
   /\ prog[ppc - 1].op = "return") =>
    \E z \in Executed("zeroEntries", "uvec_refined"),
       b \in Executed("beginSetValues", "uvec_refined"),
       f \in Executed("endSetValues", "uvec_refined"),
       d \in Executed("beginDistributeValues", "uvec_refined"),
       e \in Executed("endDistributeValues", "uvec_refined") :
      /\ z < b /\ b < f /\ f < d /\ d < e
      /\ \A w \in Executed("setValues", "uvec_refined") : z < w /\ w < b

\* The statements executed so far, by index, that belong to a completed
\* evalConstraint: only evalConstraint reduces over the communicator, and its
\* second reduce (of ks_fail_sum, line 3803) is its last statement before
\* the return.
EvalConstraintEnds ==
  {j \in 2 .. (ppc - 1) :
     prog[j].op = "return" /\ prog[j - 1].op = "allreduce"}

\* The first statement of the evalConDeriv call in progress, if the call in
\* progress is an evalConDeriv (dfdu->zeroEntries, line 3850).
EvalConDerivStarts ==
  {i \in 1 .. (ppc - 1) :
     /\ prog[i].op = "zeroEntries" /\ prog[i].v = "dfdu"
     /\ \A j \in i .. (ppc - 1) : prog[j].op # "return"}

\* C27: when evalConDeriv reads the stored state vector, its nodal
\* derivatives, ks_max_fail and ks_fail_sum (the failure weight kw of a
\* quadrature point), an evalConstraint call of the same object has completed
\* before, and nothing has written uvec or uderiv since the most recent one.
StateSetBeforeConDeriv ==
  (pcfg.fn = "TMRStressConstraint" /\ last.op = "failure"
   /\ EvalConDerivStarts # {}) =>
    /\ EvalConstraintEnds # {}
    /\ \A e \in EvalConstraintEnds :
         (\A x \in EvalConstraintEnds : x <= e) =>
            \A w \in e .. (ppc - 1) :
               ~(prog[w].op \in WriteOps /\ prog[w].v \in {"uvec", "uderiv"})

\* evalConDeriv has read the state of an object whose evalConstraint ran.
ConDerivAfterConstraint ==
  /\ pcfg.fn = "TMRStressConstraint" /\ last.op = "failure"
  /\ EvalConDerivStarts # {}
  /\ EvalConstraintEnds # {}

(***************************************************************************)
(* The KS aggregate of TMRStressConstraint::evalConstraint on one process. *)
(* Values are integers: detJ already carries the quadrature weight, the    *)
(* failure value fval is a small natural number, and exp(ks_weight*x) for  *)
(* x <= 0 is stood for by the positive, increasing 2^x scaled by 2^MaxFval. *)
(***************************************************************************)

\* The largest number of quadrature points on the process.
MaxPoints == 2

\* The largest Jacobian determinant (times quadrature weight) at a point.
MaxDetJ == 1

\* The largest failure value at a point.
MaxFval == 1

\* ks_max_fail = -1e20: a value below every failure value.
KsFloor == 0 - 1

DetJs == (0 - 1) .. MaxDetJ
Fvals == 0 .. MaxFval

RECURSIVE Pow2(_)
Pow2(n) == IF n <= 0 THEN 1 ELSE 2 * Pow2(n - 1)

\* exp(ks_weight*(fval - ks_max_fail)), scaled
ExpKs(x) == Pow2(MaxFval + x)

MaxOf(a, b) == IF a > b THEN a ELSE b

\* The quadrature points of the local elements in the order of the loops:
\* what evalStrain returns (detJ) and what con->failure returns (fval).
PointLists ==
  UNION {[1 .. n -> [detJ : DetJs, fval : Fvals]] : n \in 0 .. MaxPoints}

InitKs ==
  /\ GeoIdle
  /\ RefIdle
  /\ ProgIdle
  /\ KsIdle
  /\ WtIdle
  /\ NdIdle
  /\ RcIdle
  /\ KpIdle
  /\ QpIdle
  /\ CoIdle
  /\ CvIdle
  /\ KwIdle
  /\ DuIdle
  /\ DgIdle
  /\ QtIdle
  /\ AxIdle
  /\ CmIdle
  /\ TrIdle
  /\ InIdle

\* evalConstraint is entered: ks_max_fail = -1e20
KsCall ==
  /\ kpc \in {"idle", "done"}
  /\ \E pts \in PointLists : kpts' = pts
  /\ ks_max_fail' = KsFloor
  /\ kpc' = "max"
  /\ ki' = 1
  /\ ksStep' = [op |-> "call"]
  /\ UNCHANGED <<ks_fail_sum, notKs>>

\* One quadrature point of the first pass: the running maximum.
KsMaxPoint ==
  /\ kpc = "max" /\ ki <= Len(kpts)
  /\ ks_max_fail' = IF kpts[ki].fval > ks_max_fail THEN kpts[ki].fval
                                                  ELSE ks_max_fail
  /\ ki' = ki + 1
  /\ ksStep' = [op |-> "max", detJ |-> kpts[ki].detJ,
                before |-> ks_fail_sum, after |-> ks_fail_sum]
  /\ UNCHANGED <<kpts, kpc, ks_fail_sum, notKs>>

\* MPI_Allreduce(MPI_IN_PLACE, &ks_max_fail, 1, ..., MPI_MAX, comm);
\* ks_fail_sum = 0.0;   (other is the maximum of the other processes)
KsMaxReduce ==
  /\ kpc = "max" /\ ki > Len(kpts)
  /\ \E other \in {KsFloor} \cup Fvals :
       ks_max_fail' = MaxOf(ks_max_fail, other)
  /\ ks_fail_sum' = 0
  /\ kpc' = "sum"
  /\ ki' = 1
  /\ ksStep' = [op |-> "allreduce"]
  /\ UNCHANGED <<kpts, notKs>>

\* One quadrature point of the second pass:
\* ks_fail_sum += detJ*exp(ks_weight*(fval - ks_max_fail));
KsSumPoint ==
  /\ kpc = "sum" /\ ki <= Len(kpts)
  /\ ks_fail_sum' =
       ks_fail_sum + kpts[ki].detJ * ExpKs(kpts[ki].fval - ks_max_fail)
  /\ ki' = ki + 1
  /\ ksStep' = [op |-> "sum", detJ |-> kpts[ki].detJ,
                before |-> ks_fail_sum, after |-> ks_fail_sum']
  /\ UNCHANGED <<kpts, kpc, ks_max_fail, notKs>>

\* MPI_Allreduce(MPI_IN_PLACE, &ks_fail_sum, 1, ..., MPI_SUM, comm);
\* (other is the sum of the other processes)
KsSumReduce ==
  /\ kpc = "sum" /\ ki > Len(kpts)
  /\ \E other \in 0 .. MaxDetJ : ks_fail_sum' = ks_fail_sum + other
  /\ kpc' = "done"
  /\ ksStep' = [op |-> "allreduce"]
  /\ UNCHANGED <<kpts, ki, ks_max_fail, notKs>>

NextKs == KsCall \/ KsMaxPoint \/ KsMaxReduce \/ KsSumPoint \/ KsSumReduce

SpecKS == InitKs /\ [][NextKs]_vars

\* C7: a quadrature point whose Jacobian determinant is <= 0 adds nothing to
\* the accumulated sum, and the pass goes on to the next point.
DegeneratePointSkipped ==
  (ksStep.op = "sum" /\ ksStep.detJ <= 0) =>
     /\ ksStep.after = ksStep.before
     /\ kpc = "sum"

(***************************************************************************)
(* computeLocalWeights on several processes.  Every node has one owner;    *)
(* each process keeps an entry for every node (an owned value or an        *)
(* off-process contribution / copy) and one for the dependent node, which  *)
(* element lists reference with the index -1.                              *)
(***************************************************************************)

\* The number of processes of the communicator.
NumProcs == 2

\* The number of independent nodes of the mesh.
WNodes == 2

\* The largest number of elements in the set S, over all processes.
MaxWElems == 2

Procs == 1 .. NumProcs
WNodeIds == 0 .. WNodes - 1
DepIndex == 0 - 1
WSlots == {DepIndex} \cup WNodeIds

\* The process owning node n.
Owner(n) == (n % NumProcs) + 1

\* The independent nodes the dependent node is interpolated from.
DepConn == {0}

\* The node lists of an element: one index per slot.
WElemNodes == WSlots \X WSlots

\* welem[j] = 1.0 for every slot, whatever its node index.
WelemAllOnes(node) == 1

\* welem[j] = 1.0; if (nodes[j] < 0){ welem[j] = 0.0; }
Welem(node) == IF node < 0 THEN 0 ELSE 1

\* TACSBVec::setValues(len, nodes, welem, TACS_ADD_VALUES) on the local part
SetValuesAdd(x, nodes) ==
  LET x1 == [x EXCEPT ![nodes[1]] = @ + Welem(nodes[1])]
  IN  [x1 EXCEPT ![nodes[2]] = @ + Welem(nodes[2])]

\* The number of slots of the element that reference slot index n.
SlotCount(nodes, n) ==
  (IF nodes[1] = n THEN 1 ELSE 0) + (IF nodes[2] = n THEN 1 ELSE 0)

RECURSIVE SumProcs(_, _, _)
\* f[1][n] + ... + f[k][n]
SumProcs(f, n, k) == IF k = 0 THEN 0 ELSE f[k][n] + SumProcs(f, n, k - 1)

\* The ways of giving each process its share of at most MaxWElems elements.
WShares == {sh \in [Procs -> 0 .. MaxWElems] :
              SumProcs([p \in Procs |-> [i \in {0} |-> sh[p]]], 0, NumProcs)
                <= MaxWElems}

WRunning == IF wpc = <<>> THEN FALSE ELSE \E p \in Procs : wpc[p] # "done"

InitWt ==
  /\ GeoIdle
  /\ RefIdle
  /\ ProgIdle
  /\ KsIdle
  /\ WtIdle
  /\ NdIdle
  /\ RcIdle
  /\ KpIdle
  /\ QpIdle
  /\ CoIdle
  /\ CvIdle
  /\ KwIdle
  /\ DuIdle
  /\ DgIdle
  /\ QtIdle
  /\ AxIdle
  /\ CmIdle
  /\ TrIdle
  /\ InIdle

\* Every process enters computeLocalWeights with its part of S; the vector
\* still holds what an earlier use left in it.
WCall ==
  /\ ~WRunning
  /\ \E sh \in WShares, stale \in {0, 1} :
       /\ wleft' = sh
       /\ wloc' = [p \in Procs |-> [n \in WSlots |-> stale]]
  /\ wpc' = [p \in Procs |-> "zero"]
  /\ wsent' = [p \in Procs |-> [n \in WNodeIds |-> 0]]
  /\ wdist' = [p \in Procs |-> [n \in WNodeIds |-> 0]]
  /\ wrefs' = [p \in Procs |-> [n \in WSlots |-> 0]]
  /\ UNCHANGED notWt

\* weights->zeroEntries()
WZeroEntries(p) ==
  /\ wpc # <<>> /\ wpc[p] = "zero"
  /\ wloc' = [wloc EXCEPT ![p] = [n \in WSlots |-> 0]]
  /\ wpc' = [wpc EXCEPT ![p] = "loop"]
  /\ UNCHANGED <<wleft, wsent, wdist, wrefs, notWt>>

\* One element of S: tacs->getElement(elem, &nodes, &len), the welem loop,
\* weights->setValues(len, nodes, welem, TACS_ADD_VALUES)
WSetValues(p) ==
  /\ wpc # <<>> /\ wpc[p] = "loop" /\ wleft[p] > 0
  /\ \E nodes \in WElemNodes :
       /\ wloc' = [wloc EXCEPT ![p] = SetValuesAdd(@, nodes)]
       /\ wrefs' = [wrefs EXCEPT ![p] =
                      [n \in WSlots |-> @[n] + SlotCount(nodes, n)]]
  /\ wleft' = [wleft EXCEPT ![p] = @ - 1]
  /\ UNCHANGED <<wpc, wsent, wdist, notWt>>

\* weights->beginSetValues(TACS_ADD_VALUES): the dependent node's value is
\* added to its independent nodes, and the values of nodes owned elsewhere
\* are sent to their owners.
WBeginSetValues(p) ==
  /\ wpc # <<>> /\ wpc[p] = "loop" /\ wleft[p] = 0
  /\ LET x == [n \in WSlots |->
                 IF n \in DepConn THEN wloc[p][n] + wloc[p][DepIndex]
                                  ELSE wloc[p][n]]
     IN  /\ wloc' = [wloc EXCEPT ![p] = x]
         /\ wsent' = [wsent EXCEPT ![p] =
                        [n \in WNodeIds |-> IF Owner(n) = p THEN 0 ELSE x[n]]]
  /\ wpc' = [wpc EXCEPT ![p] = "endSet"]
  /\ UNCHANGED <<wleft, wdist, wrefs, notWt>>

\* weights->endSetValues(TACS_ADD_VALUES): waits for the contributions of
\* every other process and adds them to the owned values.
WEndSetValues(p) ==
  /\ wpc # <<>> /\ wpc[p] = "endSet"
  /\ \A q \in Procs : wpc[q] \in {"endSet", "beginDist", "endDist", "done"}
  /\ wloc' = [wloc EXCEPT ![p] =
                [n \in WSlots |->
                   IF n \in WNodeIds /\ Owner(n) = p
                     THEN @[n] + SumProcs(wsent, n, NumProcs)
                     ELSE @[n]]]
  /\ wpc' = [wpc EXCEPT ![p] = "beginDist"]
  /\ UNCHANGED <<wleft, wsent, wdist, wrefs, notWt>>

\* weights->beginDistributeValues(): the owned values are sent out.
WBeginDistribute(p) ==
  /\ wpc # <<>> /\ wpc[p] = "beginDist"
  /\ wdist' = [wdist EXCEPT ![p] =
                 [n \in WNodeIds |-> IF Owner(n) = p THEN wloc[p][n] ELSE 0]]
  /\ wpc' = [wpc EXCEPT ![p] = "endDist"]
  /\ UNCHANGED <<wleft, wloc, wsent, wrefs, notWt>>

\* weights->endDistributeValues(): waits for the owners' values, stores them
\* in the off-process copies and interpolates the dependent node.
WEndDistribute(p) ==
  /\ wpc # <<>> /\ wpc[p] = "endDist"
  /\ \A q \in Procs : wpc[q] \in {"endDist", "done"}
  /\ LET x == [n \in WNodeIds |->
                 IF Owner(n) = p THEN wloc[p][n] ELSE wdist[Owner(n)][n]]
     IN  wloc' = [wloc EXCEPT ![p] =
                    [n \in WSlots |-> IF n = DepIndex THEN x[0] ELSE x[n]]]
  /\ wpc' = [wpc EXCEPT ![p] = "done"]
  /\ UNCHANGED <<wleft, wsent, wdist, wrefs, notWt>>

NextWt ==
  \/ WCall
  \/ \E p \in Procs :
       \/ WZeroEntries(p) \/ WSetValues(p)
       \/ WBeginSetValues(p) \/ WEndSetValues(p)
       \/ WBeginDistribute(p) \/ WEndDistribute(p)

SpecWt == InitWt /\ [][NextWt]_vars

\* The number of (element, slot) pairs of S, over all processes, that
\* reference node n.
Referenced(n) == SumProcs(wrefs, n, NumProcs)

\* C10: once every process has completed the finalize of
\* computeLocalWeights, the weight stored for a node by its owner is the
\* number of (element, slot) pairs of S on all processes that reference the
\* node; dependent (negative) slots add nothing.  After the distribute every
\* process holds that value.
WeightsCountReferences ==
  wpc # <<>> =>
    /\ (\A p \in Procs : wpc[p] \in {"beginDist", "endDist", "done"}) =>
          \A n \in WNodeIds : wloc[Owner(n)][n] = Referenced(n)
    /\ (\A p \in Procs : wpc[p] = "done") =>
          \A p \in Procs, n \in WNodeIds : wloc[p][n] = Referenced(n)

WeightsOfSharedNode ==
  /\ wpc # <<>>
  /\ \A p \in Procs : wpc[p] = "done"
  /\ wrefs[1][1] > 0 /\ wrefs[2][1] > 0
  /\ wrefs[1][DepIndex] > 0
  /\ wloc[1][1] = 2


(***************************************************************************)
(* The element loops of computeLocalWeights, computeNodeDeriv2D/3D and     *)
(* addRefinedSolution2D/3D: which elements a call visits when it is given  *)
(* an element list (element_nums, num_elements) and when it is not, what   *)
(* it reads for each, and what it hands to setValues.  For                 *)
(* computeNodeDeriv the element buffer delem is modelled entry by entry.   *)
(***************************************************************************)

\* tacs->getElement(elem, &nodes, &len): the node index of slot s of
\* element e, negative for a dependent node.
NdNode(c, e, s) ==
  IF s \in c.dep THEN 0 - (s + 1) ELSE e * (NodesPerElem(c.dim, c.order) - 1) + s

NdNodes(c, e) == [s \in 0 .. NodesPerElem(c.dim, c.order) - 1 |-> NdNode(c, e, s)]

\* winv*(Ud[3*k]*J[..] + Ud[3*k+1]*J[..] + Ud[3*k+2]*J[..]) at the knot of
\* slot s, for variable k and direction comp: a small integer fixed by the
\* input data, zero at some entries and nonzero at others.
WeightedDeriv(c, e, s, k, comp) == ((c.seed + e + s + k + comp) % 3) - 1

\* The knot loops without the test of the node index.
NodeDerivUnmasked(c, e, s, k, comp) == WeightedDeriv(c, e, s, k, comp)

\* What the knot loops store at d[comp] for slot s and variable k:
\*   if (nodes[ii + jj*order + kk*order*order] >= 0){ d[comp] = winv*(...) }
\*   else { d[0] = d[1] = d[2] = 0.0; }
NodeDerivAtKnot(c, e, s, k, comp) ==
  IF NdNode(c, e, s) >= 0 THEN WeightedDeriv(c, e, s, k, comp) ELSE 0

\* deriv_per_node*order*order(*order): the length of delem.
DelemLen(c) == 3 * c.vars_per_node * NodesPerElem(c.dim, c.order)

\* delem after the knot loops of element e: d starts at delem and advances
\* by 3 per variable, knots in the order ii + jj*order + kk*order*order.
NodeDerivFill(c, e) ==
  [idx \in 0 .. DelemLen(c) - 1 |->
     NodeDerivAtKnot(c, e, idx \div (3 * c.vars_per_node),
                     (idx % (3 * c.vars_per_node)) \div 3, idx % 3)]

\* welem of computeLocalWeights: 1.0, or 0.0 if (nodes[j] < 0).
LocalWeightsFill(c, e) ==
  [s \in 0 .. NodesPerElem(c.dim, c.order) - 1 |->
     IF NdNode(c, e, s) < 0 THEN 0 ELSE 1]

\* The number of iterations of the element loop:
\*   computeLocalWeights   if (num_elements < 0) all elements, else the list
\*   the others            nelems = getNumElements();
\*                         if (element_nums){ nelems = num_elements; }
NdLoopCount(c) ==
  IF c.fn = "computeLocalWeights"
    THEN IF c.num_elements < 0 THEN c.nelems ELSE c.num_elements
    ELSE IF c.has_list THEN c.num_elements ELSE c.nelems

\* An element loop that ignores the list: elem = index.
NdElemOfIndex(c, index) == index

\* The element of iteration index (from 0):
\*   elem = index; if (element_nums){ elem = element_nums[index]; }
NdElemOf(c, index) ==
  IF c.fn = "computeLocalWeights"
    THEN IF c.num_elements < 0 THEN index ELSE c.element_nums[index + 1]
    ELSE IF c.has_list THEN c.element_nums[index + 1] ELSE index

\* The element lists tried: any sequence of local element numbers.
NdLists(nelems) == UNION {[1 .. n -> 0 .. nelems - 1] : n \in 0 .. MaxElems}

\* The element arguments tried: no list (element_nums = NULL,
\* num_elements = -1), or a list and its length.
NdArgs(ne) ==
  {<<FALSE, <<>>, 0 - 1>>} \cup {<<TRUE, es, Len(es)>> : es \in NdLists(ne)}

\* The calls tried.  The field (vars_per_node, seed) is varied only for
\* computeNodeDeriv, the one routine whose buffer entries are modelled.
NdConfigs ==
  UNION {
    {[fn |-> f[1], dim |-> d, order |-> o, vars_per_node |-> f[2],
      nelems |-> ne, dep |-> DepSlots(dp, d, o), seed |-> f[3],
      has_list |-> l[1], element_nums |-> l[2], num_elements |-> l[3]] :
       f \in {<<"computeLocalWeights", 1, 0>>, <<"addRefinedSolution", 1, 0>>}
              \cup ({"computeNodeDeriv"} \X (1 .. MaxVarsPerNode)
                                         \X (0 .. NumSeeds - 1)),
       d \in {2, 3}, o \in 2 .. MaxMeshOrder,
       dp \in {"none", "inner", "ends"},
       l \in NdArgs(ne)} : ne \in 0 .. MaxElems}

InitNd ==
  /\ GeoIdle
  /\ RefIdle
  /\ ProgIdle
  /\ KsIdle
  /\ WtIdle
  /\ NdIdle
  /\ RcIdle
  /\ KpIdle
  /\ QpIdle
  /\ CoIdle
  /\ CvIdle
  /\ KwIdle
  /\ DuIdle
  /\ DgIdle
  /\ QtIdle
  /\ AxIdle
  /\ CmIdle
  /\ TrIdle
  /\ InIdle

\* Entry: the output vector is zeroed (computeLocalWeights,
\* computeNodeDeriv) and the element buffer is allocated.
NdCall ==
  /\ npc = "idle"
  /\ \E c \in NdConfigs :
       /\ ncfg' = c
       /\ npc' = IF NdLoopCount(c) > 0 THEN "read" ELSE "finish"
  /\ nindex' = 0
  /\ nbuf' = <<>>
  /\ nread' = <<>>
  /\ nadds' = <<>>
  /\ UNCHANGED notNd

\* Head of an iteration: getElement(elem, &nodes, &len) and the getValues
\* calls for the element's nodes.
NdRead ==
  /\ npc = "read"
  /\ nread' = Append(nread, NdElemOf(ncfg, nindex))
  /\ npc' = "fill"
  /\ UNCHANGED <<ncfg, nindex, nbuf, nadds, notNd>>

\* The body: the element buffer is filled (welem, delem; uref is the
\* subject of the refined-buffer machine above).
NdFill ==
  /\ npc = "fill"
  /\ LET e == NdElemOf(ncfg, nindex)
     IN  nbuf' = IF ncfg.fn = "computeNodeDeriv" THEN NodeDerivFill(ncfg, e)
                 ELSE IF ncfg.fn = "computeLocalWeights"
                   THEN LocalWeightsFill(ncfg, e)
                 ELSE <<>>
  /\ npc' = "set"
  /\ UNCHANGED <<ncfg, nindex, nread, nadds, notNd>>

\* setValues(len, nodes, buffer, TACS_ADD_VALUES), then the next iteration.
NdSetValues ==
  /\ npc = "set"
  /\ LET e == NdElemOf(ncfg, nindex)
     IN  nadds' = Append(nadds, [elem |-> e, nodes |-> NdNodes(ncfg, e),
                                 vals |-> nbuf])
  /\ nindex' = nindex + 1
  /\ npc' = IF nindex + 1 < NdLoopCount(ncfg) THEN "read" ELSE "finish"
  /\ UNCHANGED <<ncfg, nbuf, nread, notNd>>

\* After the loop: the buffers are freed (and the vector finalized).
NdFinish ==
  /\ npc = "finish"
  /\ npc' = "done"
  /\ UNCHANGED <<ncfg, nindex, nbuf, nread, nadds, notNd>>

NextNd == NdCall \/ NdRead \/ NdFill \/ NdSetValues \/ NdFinish

SpecNd == InitNd /\ [][NextNd]_vars

\* C11: in computeNodeDeriv2D and computeNodeDeriv3D, every derivative
\* component the element buffer holds for a slot whose node index is
\* negative is zero when the buffer is added to the derivative vector.
DependentDerivsZero ==
  ncfg.fn = "computeNodeDeriv" =>
    \A a \in 1 .. Len(nadds) :
      \A idx \in DOMAIN nadds[a].vals :
        nadds[a].nodes[idx \div (3 * ncfg.vars_per_node)] < 0
          => nadds[a].vals[idx] = 0

\* A buffer was added whose element has a dependent slot, and the knot
\* loops had a nonzero derivative for that slot.
DependentDerivSeen ==
  /\ ncfg.fn = "computeNodeDeriv"
  /\ ncfg.dim = 3
  /\ \E a \in 1 .. Len(nadds) :
       \E idx \in DOMAIN nadds[a].vals :
         LET s == idx \div (3 * ncfg.vars_per_node)
         IN  /\ nadds[a].nodes[s] < 0
             /\ WeightedDeriv(ncfg, nadds[a].elem, s,
                              (idx % (3 * ncfg.vars_per_node)) \div 3,
                              idx % 3) # 0
             /\ \E j \in DOMAIN nadds[a].vals : nadds[a].vals[j] # 0


\* C16: given an element list, computeLocalWeights, computeNodeDeriv2D/3D
\* and addRefinedSolution2D/3D read the data of the listed elements, in the
\* order of the list, and add one contribution for each of them, on its own
\* nodes; they read and add nothing for an element that is not listed.
ListedElementsOnly ==
  (ncfg.fn # "none" /\ ncfg.has_list) =>
    /\ Len(nread) <= Len(ncfg.element_nums)
    /\ Len(nadds) <= Len(nread)
    /\ \A i \in 1 .. Len(nread) : nread[i] = ncfg.element_nums[i]
    /\ \A i \in 1 .. Len(nadds) :
         /\ nadds[i].elem = ncfg.element_nums[i]
         /\ nadds[i].nodes = NdNodes(ncfg, ncfg.element_nums[i])
    /\ npc \in {"finish", "done"} =>
         /\ Len(nread) = Len(ncfg.element_nums)
         /\ Len(nadds) = Len(ncfg.element_nums)

\* A call on a mesh of two elements that was given the list <<1>> has
\* returned: it handled element 1 and left element 0 alone.
UnlistedElementSkipped ==
  /\ ncfg.fn = "addRefinedSolution"
  /\ ncfg.nelems = 2
  /\ ncfg.has_list
  /\ ncfg.element_nums = <<1>>
  /\ npc = "done"
  /\ Len(nadds) = 1
  /\ nadds[1].elem = 1


(***************************************************************************)
(* TMR_ComputeReconSolution on several processes: the refined vector is    *)
(* zeroed, every name group adds the contributions of its local elements,  *)
(* the vector is finalized, the refined-mesh weights are computed and the  *)
(* owned entries are divided by them.  The mesh is that of the weight      *)
(* machine above (nodes WNodeIds with their owners, one dependent node);   *)
(* a value that has been divided is kept as numerator and denominator.     *)
(***************************************************************************)

\* The names of the topology's faces / volumes, in the order of the
\* std::set: the empty name (entities without a name) first.
RcNames == <<"", "name">>

\* refined_tacs->getElement(elem, &refined_nodes, &len) for element k
\* (from 1): two slots, the second one dependent if dep.
RcElemNodes(k, dep) ==
  <<(k - 1) % WNodes, IF dep THEN DepIndex ELSE k % WNodes>>

\* The meshes tried: each element with its process, its name group and its
\* kind; every node of a mesh is referenced by an element.
RcMeshes ==
  {es \in UNION {[1 .. ne -> [proc : Procs, grp : 1 .. Len(RcNames),
                              dep : BOOLEAN]] : ne \in 1 .. MaxWElems} :
     \A n \in WNodeIds :
       \E k \in 1 .. Len(es), j \in 1 .. 2 : RcElemNodes(k, es[k].dep)[j] = n}

\* What the knot loops of addRefinedSolution leave in uref for slot j of
\* element k: a nonzero value fixed by the input field.
RcRaw(k, j) == k + j

\* uref at setValues, after "zero the contribution if it goes to a
\* dependent node".
RcMasked(nodes, k, j) == IF nodes[j] < 0 THEN 0 ELSE RcRaw(k, j)

\* vec_refined->setValues(len, refined_nodes, uref, TACS_ADD_VALUES) on the
\* local part x.
RcSetValues(x, k, nodes) ==
  LET x1 == [x EXCEPT ![nodes[1]] = @ + RcMasked(nodes, k, 1)]
  IN  [x1 EXCEPT ![nodes[2]] = @ + RcMasked(nodes, k, 2)]

RECURSIVE RcAddGroup(_, _, _, _, _)
\* addRefinedSolution(..., elem_nums, num_elems) on process p for the
\* elements of name group g among the first k elements of the mesh.
RcAddGroup(x, es, p, g, k) ==
  IF k = 0 THEN x
  ELSE LET y == RcAddGroup(x, es, p, g, k - 1)
       IN  IF es[k].proc = p /\ es[k].grp = g
             THEN RcSetValues(y, k, RcElemNodes(k, es[k].dep))
             ELSE y

RECURSIVE RcAddWeights(_, _, _, _)
\* The element loop of computeLocalWeights(tacs_refined, weights_refined)
\* on process p: every local element.
RcAddWeights(x, es, p, k) ==
  IF k = 0 THEN x
  ELSE LET y == RcAddWeights(x, es, p, k - 1)
       IN  IF es[k].proc = p
             THEN SetValuesAdd(y, RcElemNodes(k, es[k].dep))
             ELSE y

\* beginSetValues(TACS_ADD_VALUES) on a local part: the dependent node's
\* value goes to its independent nodes.
RcAddDependent(x) ==
  [n \in WSlots |-> IF n \in DepConn THEN x[n] + x[DepIndex] ELSE x[n]]

\* The values a process sends to the owners in beginSetValues.
RcOffProcess(x, p) == [n \in WNodeIds |-> IF Owner(n) = p THEN 0 ELSE x[n]]

\* The loop without the division.
RcUndivided(u, w) == [num |-> u, den |-> 1]

\* winv = 1.0/w[i]; u[j] *= winv
RcDivide(u, w) == [num |-> u, den |-> w]

\* The normalization loop over the local array (the owned nodes).
RcNormalized(u, w, p) ==
  [n \in WSlots |->
     IF n \in WNodeIds /\ Owner(n) = p THEN RcDivide(u[n], w[n]) ELSE u[n]]

InitRc ==
  /\ GeoIdle
  /\ RefIdle
  /\ ProgIdle
  /\ KsIdle
  /\ WtIdle
  /\ NdIdle
  /\ RcIdle
  /\ KpIdle
  /\ QpIdle
  /\ CoIdle
  /\ CvIdle
  /\ KwIdle
  /\ DuIdle
  /\ DgIdle
  /\ QtIdle
  /\ AxIdle
  /\ CmIdle
  /\ TrIdle
  /\ InIdle

\* Every process enters TMR_ComputeReconSolution; the refined vector still
\* holds what an earlier use left in it.
RcCall ==
  /\ rcpc = <<>>
  /\ \E es \in RcMeshes, stale \in {0, 1} :
       /\ rccfg' = [fn |-> "TMR_ComputeReconSolution", elems |-> es]
       /\ uloc' = [p \in Procs |-> [n \in WSlots |-> stale]]
  /\ rcpc' = [p \in Procs |-> "zero"]
  /\ rcgrp' = [p \in Procs |-> 0]
  /\ usent' = [p \in Procs |-> [n \in WNodeIds |-> 0]]
  /\ wrloc' = [p \in Procs |-> [n \in WSlots |-> 0]]
  /\ wrsent' = [p \in Procs |-> [n \in WNodeIds |-> 0]]
  /\ wrdist' = [p \in Procs |-> [n \in WNodeIds |-> 0]]
  /\ UNCHANGED notRc

\* uvec_refined->zeroEntries()
RcZeroEntries(p) ==
  /\ rcpc # <<>> /\ rcpc[p] = "zero"
  /\ uloc' = [uloc EXCEPT ![p] = [n \in WSlots |-> 0]]
  /\ rcpc' = [rcpc EXCEPT ![p] = "groups"]
  /\ UNCHANGED <<rccfg, rcgrp, usent, wrloc, wrsent, wrdist, notRc>>

\* One iteration of the loop over the names: computeLocalWeights and
\* computeNodeDeriv on the coarse mesh, whose finalize waits for every
\* process to have come that far, then addRefinedSolution for the local
\* elements with the name.
RcNameGroup(p) ==
  /\ rcpc # <<>> /\ rcpc[p] = "groups"
  /\ \A q \in Procs : rcpc[q] # "zero" /\ rcgrp[q] >= rcgrp[p]
  /\ uloc' = [uloc EXCEPT ![p] =
                RcAddGroup(@, rccfg.elems, p, rcgrp[p] + 1, Len(rccfg.elems))]
  /\ rcgrp' = [rcgrp EXCEPT ![p] = @ + 1]
  /\ rcpc' = [rcpc EXCEPT ![p] =
                IF rcgrp[p] + 1 = Len(RcNames) THEN "beginSet" ELSE "groups"]
  /\ UNCHANGED <<rccfg, usent, wrloc, wrsent, wrdist, notRc>>

\* uvec_refined->beginSetValues(TACS_ADD_VALUES)
RcBeginSetValues(p) ==
  /\ rcpc # <<>> /\ rcpc[p] = "beginSet"
  /\ LET x == RcAddDependent(uloc[p])
     IN  /\ uloc' = [uloc EXCEPT ![p] = x]
         /\ usent' = [usent EXCEPT ![p] = RcOffProcess(x, p)]
  /\ rcpc' = [rcpc EXCEPT ![p] = "endSet"]
  /\ UNCHANGED <<rccfg, rcgrp, wrloc, wrsent, wrdist, notRc>>

\* uvec_refined->endSetValues(TACS_ADD_VALUES): waits for the contributions
\* of every other process and adds them to the owned values.
RcEndSetValues(p) ==
  /\ rcpc # <<>> /\ rcpc[p] = "endSet"
  /\ \A q \in Procs : rcpc[q] \notin {"zero", "groups", "beginSet"}
  /\ uloc' = [uloc EXCEPT ![p] =
                [n \in WSlots |->
                   IF n \in WNodeIds /\ Owner(n) = p
                     THEN @[n] + SumProcs(usent, n, NumProcs)
                     ELSE @[n]]]
  /\ rcpc' = [rcpc EXCEPT ![p] = "weights"]
  /\ UNCHANGED <<rccfg, rcgrp, usent, wrloc, wrsent, wrdist, notRc>>

\* computeLocalWeights(tacs_refined, weights_refined) up to its
\* beginSetValues: zeroEntries, the element loop, the sends.
RcWeightsBegin(p) ==
  /\ rcpc # <<>> /\ rcpc[p] = "weights"
  /\ LET x == RcAddDependent(
                RcAddWeights([n \in WSlots |-> 0], rccfg.elems, p,
                             Len(rccfg.elems)))
     IN  /\ wrloc' = [wrloc EXCEPT ![p] = x]
         /\ wrsent' = [wrsent EXCEPT ![p] = RcOffProcess(x, p)]
  /\ rcpc' = [rcpc EXCEPT ![p] = "wendSet"]
  /\ UNCHANGED <<rccfg, rcgrp, uloc, usent, wrdist, notRc>>

\* The endSetValues and beginDistributeValues of computeLocalWeights.
RcWeightsEnd(p) ==
  /\ rcpc # <<>> /\ rcpc[p] = "wendSet"
  /\ \A q \in Procs : rcpc[q] \in {"wendSet", "wendDist", "norm", "done"}
  /\ LET x == [n \in WSlots |->
                 IF n \in WNodeIds /\ Owner(n) = p
                   THEN wrloc[p][n] + SumProcs(wrsent, n, NumProcs)
                   ELSE wrloc[p][n]]
     IN  /\ wrloc' = [wrloc EXCEPT ![p] = x]
         /\ wrdist' = [wrdist EXCEPT ![p] =
                         [n \in WNodeIds |-> IF Owner(n) = p THEN x[n] ELSE 0]]
  /\ rcpc' = [rcpc EXCEPT ![p] = "wendDist"]
  /\ UNCHANGED <<rccfg, rcgrp, uloc, usent, wrsent, notRc>>

\* The endDistributeValues of computeLocalWeights: the owners' values are
\* stored in the off-process copies.
RcWeightsDistributed(p) ==
  /\ rcpc # <<>> /\ rcpc[p] = "wendDist"
  /\ \A q \in Procs : rcpc[q] \in {"wendDist", "norm", "done"}
  /\ LET x == [n \in WNodeIds |->
                 IF Owner(n) = p THEN wrloc[p][n] ELSE wrdist[Owner(n)][n]]
     IN  wrloc' = [wrloc EXCEPT ![p] =
                     [n \in WSlots |-> IF n = DepIndex THEN x[0] ELSE x[n]]]
  /\ rcpc' = [rcpc EXCEPT ![p] = "norm"]
  /\ UNCHANGED <<rccfg, rcgrp, uloc, usent, wrsent, wrdist, notRc>>

\* The loop over the local arrays of uvec_refined and weights_refined, and
\* the return.
RcNormalize(p) ==
  /\ rcpc # <<>> /\ rcpc[p] = "norm"
  /\ uloc' = [uloc EXCEPT ![p] = RcNormalized(@, wrloc[p], p)]
  /\ rcpc' = [rcpc EXCEPT ![p] = "done"]
  /\ UNCHANGED <<rccfg, rcgrp, usent, wrloc, wrsent, wrdist, notRc>>

NextRc ==
  \/ RcCall
  \/ \E p \in Procs :
       \/ RcZeroEntries(p) \/ RcNameGroup(p)
       \/ RcBeginSetValues(p) \/ RcEndSetValues(p)
       \/ RcWeightsBegin(p) \/ RcWeightsEnd(p) \/ RcWeightsDistributed(p)
       \/ RcNormalize(p)

SpecRc == InitRc /\ [][NextRc]_vars

RECURSIVE RcContributions(_, _, _)
\* The sum of the contributions of the first k elements of the mesh, on
\* whatever process and in whatever name group, to node n.
RcContributions(es, n, k) ==
  IF k = 0 THEN 0
  ELSE LET nodes == RcElemNodes(k, es[k].dep)
       IN  RcContributions(es, n, k - 1)
             + (IF nodes[1] = n THEN RcRaw(k, 1) ELSE 0)
             + (IF nodes[2] = n THEN RcRaw(k, 2) ELSE 0)

RECURSIVE RcReferences(_, _, _)
\* The number of (element, slot) pairs of the refined mesh referencing n.
RcReferences(es, n, k) ==
  IF k = 0 THEN 0
  ELSE RcReferences(es, n, k - 1)
         + SlotCount(RcElemNodes(k, es[k].dep), n)

KpFval(c, p, i) == ((c.seed + p + i) % (MaxFval + 3)) - 2

\* A first pass that keeps the value of the point visited last.
KsMaxUpdateLast(fval, max) == fval

\* if (TacsRealPart(fval) > TacsRealPart(ks_max_fail)){ ks_max_fail = fval; }
KsMaxUpdate(fval, max) == IF fval > max THEN fval ELSE max

\* evalStrain(...)*gaussWts[ii]*gaussWts[jj]*gaussWts[kk] at that point.
KpDetJ(c, p, i) == ((c.seed + i) % (MaxDetJ + 2)) - 1

\* The calls tried: each process has its own number of quadrature points
\* (elements), possibly none.
KpConfigs ==
  {[fn |-> "evalConstraint", npts |-> n, seed |-> sd] :
     n \in [Procs -> 0 .. MaxPoints], sd \in 0 .. NumSeeds - 1}

RECURSIVE MaxProcs(_, _)
\* max(f[1], ..., f[k])
MaxProcs(f, k) == IF k = 1 THEN f[1] ELSE MaxOf(f[k], MaxProcs(f, k - 1))

\* A reduction that gives the process its own value back.
AllreduceLocal(own, all) == own

\* MPI_Allreduce(MPI_IN_PLACE, &ks_max_fail, 1, TACS_MPI_TYPE, MPI_MAX, comm)
AllreduceMax(own, all) == MaxProcs(all, NumProcs)

InitKp ==
  /\ GeoIdle
  /\ RefIdle
  /\ ProgIdle
  /\ KsIdle
  /\ WtIdle
  /\ NdIdle
  /\ RcIdle
  /\ KpIdle
  /\ QpIdle
  /\ CoIdle
  /\ CvIdle
  /\ KwIdle
  /\ DuIdle
  /\ DgIdle
  /\ QtIdle
  /\ AxIdle
  /\ CmIdle
  /\ TrIdle
  /\ InIdle

\* Every process enters evalConstraint: ks_max_fail = -1e20; ks_fail_sum
\* still holds what the last evaluation left in it.
KpCall ==
  /\ kppc = <<>>
  /\ \E c \in KpConfigs : kpcfg' = c
  /\ \E stale \in {0, 1} : kpsum' = [p \in Procs |-> stale]
  /\ kppc' = [p \in Procs |-> "max"]
  /\ kpi' = [p \in Procs |-> 1]
  /\ kpmax' = [p \in Procs |-> KsFloor]
  /\ kpin' = [p \in Procs |-> KsFloor]
  /\ kpsin' = [p \in Procs |-> 0]
  /\ kplast' = [p \in Procs |-> [op |-> "none"]]
  /\ UNCHANGED notKp

\* One quadrature point of the first pass on process p.
KpMaxPoint(p) ==
  /\ kppc # <<>> /\ kppc[p] = "max" /\ kpi[p] <= kpcfg.npts[p]
  /\ kpmax' = [kpmax EXCEPT ![p] = KsMaxUpdate(KpFval(kpcfg, p, kpi[p]), @)]
  /\ kpi' = [kpi EXCEPT ![p] = @ + 1]
  /\ UNCHANGED <<kpcfg, kppc, kpin, kpsum, kpsin, kplast, notKp>>

\* Process p enters the MPI_MAX reduction with its local maximum.
KpMaxReduceEnter(p) ==
  /\ kppc # <<>> /\ kppc[p] = "max" /\ kpi[p] > kpcfg.npts[p]
  /\ kpin' = [kpin EXCEPT ![p] = kpmax[p]]
  /\ kppc' = [kppc EXCEPT ![p] = "maxReduce"]
  /\ UNCHANGED <<kpcfg, kpi, kpmax, kpsum, kpsin, kplast, notKp>>

\* The reduction returns on p once every process has entered it;
\* ks_fail_sum = 0.0
KpMaxReduceReturn(p) ==
  /\ kppc # <<>> /\ kppc[p] = "maxReduce"
  /\ \A q \in Procs : kppc[q] # "max"
  /\ kpmax' = [kpmax EXCEPT ![p] = AllreduceMax(kpin[p], kpin)]
  /\ kpsum' = [kpsum EXCEPT ![p] = 0]
  /\ kpi' = [kpi EXCEPT ![p] = 1]
  /\ kppc' = [kppc EXCEPT ![p] = "sum"]
  /\ UNCHANGED <<kpcfg, kpin, kpsin, kplast, notKp>>

\* One quadrature point of the second pass on process p:
\* ks_fail_sum += detJ*exp(ks_weight*(fval - ks_max_fail));
KpSumPoint(p) ==
  /\ kppc # <<>> /\ kppc[p] = "sum" /\ kpi[p] <= kpcfg.npts[p]
  /\ kpsum' = [kpsum EXCEPT ![p] =
                 @ + KpDetJ(kpcfg, p, kpi[p])
                       * ExpKs(KpFval(kpcfg, p, kpi[p]) - kpmax[p])]
  /\ kplast' = [kplast EXCEPT ![p] =
                  [op |-> "sum", point |-> kpi[p], max |-> kpmax[p]]]
  /\ kpi' = [kpi EXCEPT ![p] = @ + 1]
  /\ UNCHANGED <<kpcfg, kppc, kpmax, kpin, kpsin, notKp>>

\* Process p enters the MPI_SUM reduction with its local sum.
KpSumReduceEnter(p) ==
  /\ kppc # <<>> /\ kppc[p] = "sum" /\ kpi[p] > kpcfg.npts[p]
  /\ kpsin' = [kpsin EXCEPT ![p] = kpsum[p]]
  /\ kppc' = [kppc EXCEPT ![p] = "sumReduce"]
  /\ UNCHANGED <<kpcfg, kpi, kpmax, kpin, kpsum, kplast, notKp>>

\* The reduction returns on p once every process has entered it.
KpSumReduceReturn(p) ==
  /\ kppc # <<>> /\ kppc[p] = "sumReduce"
  /\ \A q \in Procs : kppc[q] \in {"sumReduce", "done"}
  /\ kpsum' = [kpsum EXCEPT ![p] = SumProcs([q \in Procs |-> <<kpsin[q]>>], 1,
                                            NumProcs)]
  /\ kppc' = [kppc EXCEPT ![p] = "done"]
  /\ UNCHANGED <<kpcfg, kpi, kpmax, kpin, kpsin, kplast, notKp>>

NextKp ==
  \/ KpCall
  \/ \E p \in Procs :
       \/ KpMaxPoint(p) \/ KpMaxReduceEnter(p) \/ KpMaxReduceReturn(p)
       \/ KpSumPoint(p) \/ KpSumReduceEnter(p) \/ KpSumReduceReturn(p)

SpecKp == InitKp /\ [][NextKp]_vars

\* The largest failure value at any quadrature point of any process (the
\* floor if there is no point).
KpGlobalMax(c) ==
  LET have == {KsFloor} \cup
                UNION {{KpFval(c, p, i) : i \in 1 .. c.npts[p]} : p \in Procs}
  IN  CHOOSE v \in have : \A x \in have : x <= v

\* C13: in evalConstraint no term is added to ks_fail_sum on any process
\* before every process has finished its first pass and the MPI_MAX
\* reduction has returned on the adding process, and the exponent of every
\* term of the second pass uses the maximum over all processes.
SumFollowsGlobalMax ==
  kppc # <<>> =>
    \A p \in Procs :
      /\ kppc[p] \in {"max", "maxReduce"} => kplast[p].op = "none"
      /\ kplast[p].op = "sum" =>
           /\ \A q \in Procs : kppc[q] # "max"
           /\ kplast[p].max = KpGlobalMax(kpcfg)

\* C26: after the first pass and its max-reduce, ks_max_fail is greater
\* than or equal to the failure value at every quadrature point of every
\* element on every process, whatever the sign and size of the values.
MaxBoundsEveryFval ==
  kppc # <<>> =>
    \A p \in Procs :
      kppc[p] \in {"sum", "sumReduce", "done"} =>
        \A q \in Procs :
          \A i \in 1 .. kpcfg.npts[q] : kpmax[p] >= KpFval(kpcfg, q, i)

\* The reduction has returned on process 1 in a call in which a process
\* visited a point with a value above a later point's, and some value is
\* negative and below the starting value of ks_max_fail.
MaxOverMixedSigns ==
  /\ kppc # <<>>
  /\ kppc[1] = "sum"
  /\ \E q \in Procs :
       \E i \in 1 .. kpcfg.npts[q], j \in 1 .. kpcfg.npts[q] :
         i < j /\ KpFval(kpcfg, q, i) > KpFval(kpcfg, q, j)
  /\ \E q \in Procs :
       \E i \in 1 .. kpcfg.npts[q] : KpFval(kpcfg, q, i) < KsFloor

\* Process 1 has added a term while the largest failure value was found on
\* process 2, whose local maximum is above that of process 1.
RemoteMaxUsed ==
  /\ kppc # <<>>
  /\ kplast[1].op = "sum"
  /\ kpin[1] < kpin[2]
  /\ kplast[1].max = kpin[2]


(***************************************************************************)
(* The quadrature loops of TMRStressConstraint over one element: the two   *)
(* passes of evalConstraint and the first element loop of evalConDeriv.    *)
(* A quadrature point is named by the indices of its three coordinates in  *)
(* gaussPts: pt[0] = gaussPts[ii], pt[1] = gaussPts[jj],                    *)
(* pt[2] = gaussPts[kk].                                                   *)
(***************************************************************************)

\* evalConstraint:
\*   num_quad_pts = FElibrary::getGaussPtsWts(order+1, &gaussPts, &gaussWts)
KsNumQuadPts(order) == order + 1

\* evalConDeriv:
\*   num_quad_pts = FElibrary::getGaussPtsWts(order+1, &gaussPts, &gaussWts)
SensNumQuadPts(order) == order + 1

\* The number of points per axis of a sweep.
NumQuadPts(s, order) ==
  IF s = "sens" THEN SensNumQuadPts(order) ELSE KsNumQuadPts(order)

\* The counters after one iteration of the loops of both passes of
\* evalConstraint,
\*   for ( kk = 0; kk < num_quad_pts; kk++ )
\*     for ( jj = 0; jj < num_quad_pts; jj++ )
\*       for ( ii = 0; ii < num_quad_pts; ii++ )
\* (kk = num_quad_pts ends the loops).
KsLoopAdvance(idx, n) ==
  IF idx[1] + 1 < n THEN <<idx[1] + 1, idx[2], idx[3]>>
  ELSE IF idx[2] + 1 < n THEN <<0, idx[2] + 1, idx[3]>>
  ELSE <<0, 0, idx[3] + 1>>

\* Loops nested the other way round: kk innermost, ii outermost.
SensLoopThirdAxisFirst(idx, n) ==
  IF idx[3] + 1 < n THEN <<idx[1], idx[2], idx[3] + 1>>
  ELSE IF idx[2] + 1 < n THEN <<idx[1], idx[2] + 1, 0>>
  ELSE IF idx[1] + 1 < n THEN <<idx[1] + 1, 0, 0>>
  ELSE <<0, 0, n>>

\* The counters after one iteration of the loops of evalConDeriv,
\*   for ( c = 0, kk = 0; kk < num_quad_pts; kk++ )
\*     for ( jj = 0; jj < num_quad_pts; jj++ )
\*       for ( ii = 0; ii < num_quad_pts; ii++, c += 3 )
SensLoopAdvance(idx, n) ==
  IF idx[1] + 1 < n THEN <<idx[1] + 1, idx[2], idx[3]>>
  ELSE IF idx[2] + 1 < n THEN <<0, idx[2] + 1, idx[3]>>
  ELSE <<0, 0, idx[3] + 1>>

QpAdvance(s, idx, n) ==
  IF s = "sens" THEN SensLoopAdvance(idx, n) ELSE KsLoopAdvance(idx, n)

QpNextSweep(s) ==
  IF s = "max" THEN "sum" ELSE IF s = "sum" THEN "sens" ELSE "done"

InitQp ==
  /\ GeoIdle
  /\ RefIdle
  /\ ProgIdle
  /\ KsIdle
  /\ WtIdle
  /\ NdIdle
  /\ RcIdle
  /\ KpIdle
  /\ QpIdle
  /\ CoIdle
  /\ CvIdle
  /\ KwIdle
  /\ DuIdle
  /\ DgIdle
  /\ QtIdle
  /\ AxIdle
  /\ CmIdle
  /\ TrIdle
  /\ InIdle

\* The constraint is constructed on a forest of some order and
\* evalConstraint reaches the quadrature loops of its first pass.
QpCall ==
  /\ qpc = "idle"
  /\ \E o \in 2 .. MaxMeshOrder : qorder' = o
  /\ qpc' = "max"
  /\ qidx' = <<0, 0, 0>>
  /\ qseen' = [s \in {"max", "sum", "sens"} |-> <<>>]
  /\ UNCHANGED notQp

\* One iteration of the innermost loop: the point is evaluated and the
\* counters advance.
QpPoint ==
  /\ qpc \in {"max", "sum", "sens"}
  /\ qidx[3] < NumQuadPts(qpc, qorder)
  /\ qseen' = [qseen EXCEPT ![qpc] = Append(@, qidx)]
  /\ qidx' = QpAdvance(qpc, qidx, NumQuadPts(qpc, qorder))
  /\ UNCHANGED <<qorder, qpc, notQp>>

\* The loops of a sweep end; the next sweep (the second pass of
\* evalConstraint, then evalConDeriv) starts its own.
QpSweepEnd ==
  /\ qpc \in {"max", "sum", "sens"}
  /\ qidx[3] >= NumQuadPts(qpc, qorder)
  /\ qpc' = QpNextSweep(qpc)
  /\ qidx' = <<0, 0, 0>>
  /\ UNCHANGED <<qorder, qseen, notQp>>

NextQp == QpCall \/ QpPoint \/ QpSweepEnd

SpecQp == InitQp /\ [][NextQp]_vars

\* The t-th point (from 1) of the tensor-product order with the first axis
\* innermost and the third axis outermost, n points per axis.
QpTensorPoint(t, n) == <<(t - 1) % n, ((t - 1) \div n) % n, (t - 1) \div (n * n)>>

\* C15: within an element the two passes of evalConstraint and the sweep of
\* evalConDeriv visit the quadrature points in the same sequence, the
\* third-axis index outermost, the second-axis index in the middle and the
\* first-axis index innermost, with the same number of points per axis.
SweepsSameOrder ==
  qpc # "idle" =>
    \A s \in {"max", "sum", "sens"} :
      /\ \A t \in 1 .. Len(qseen[s]) :
           /\ qseen[s][t] = QpTensorPoint(t, qorder + 1)
           /\ qseen[s][t] = qseen["max"][t]
      /\ (qpc = "done" \/ (s = "max" /\ qpc # "max") \/ (s = "sum" /\ qpc = "sens"))
           => Len(qseen[s]) = Len(qseen["max"])

\* The three sweeps over an element of order 2 are complete: 27 points
\* each, the second one visited being the next along the first axis.
SweepsComplete ==
  /\ qpc = "done"
  /\ qorder = 2
  /\ Len(qseen["sens"]) = 27
  /\ qseen["sens"] = qseen["max"]
  /\ qseen["sum"][2] = <<1, 0, 0>>


(***************************************************************************)
(* The collective operations of one call on several processes.            *)
(*                                                                         *)
(* Every process runs the same routine with the same global arguments on   *)
(* its own part of the mesh.  beginSetValues and beginDistributeValues     *)
(* start the communication and do not block; endSetValues and              *)
(* endDistributeValues wait for the messages every other process sends in  *)
(* its matching begin; MPI_Allreduce returns once every process has        *)
(* entered it.  Collective operations match by their order of execution.   *)
(***************************************************************************)

\* The operations of TACSBVec and MPI that involve every process.
CollectiveOps ==
  {"beginSetValues", "endSetValues", "beginDistributeValues",
   "endDistributeValues", "allreduce"}

\* The collective operations a process executes during the run c, in order.
Collectives(c) == SelectSeq(Program(c), LAMBDA s : s.op \in CollectiveOps)

\* The method calls made on a functional after its construction.
CoCalls == {<<"evalConstraint">>, <<"evalConstraint", "evalConDeriv">>}

\* The routines and the arguments every process shares: the dimension, the
\* number of names of the topology, the calls made on the functional.
CoRoutine(fn, dim, names, calls) ==
  [fn |-> fn, dim |-> dim, names |-> names, calls |-> calls]

CoRoutines ==
  {CoRoutine("TMR_ComputeInterpSolution", d, 0, <<>>) : d \in {2, 3}}
  \cup {CoRoutine("TMR_ComputeReconSolution", 3, k, <<>>) : k \in {1, 2}}
  \cup {CoRoutine("TMR_StrainEnergyErrorEst", 3, 0, <<>>),
        CoRoutine("TMR_AdjointErrorEst", 3, 0, <<>>)}
  \cup {CoRoutine("TMRStressConstraint", 3, 0, cl) : cl \in CoCalls}
  \cup {CoRoutine("TMRCurvatureConstraint", 3, 0, <<"evalConstraint">>)}

\* What one process holds of the mesh: its elements, their split over the
\* names, and its auxiliary elements (none, or one on each element).
CoLocal(nelems, groups, has_aux) ==
  [nelems |-> nelems, groups |-> groups, has_aux |-> has_aux]

CoLocals(r) ==
  IF r.fn = "TMR_ComputeReconSolution"
    THEN UNION {{CoLocal(n, g, FALSE) :
                   g \in {x \in NameGroups(n) : Len(x) = r.names}} :
                n \in 0 .. MaxElems}
    ELSE IF r.fn = "TMR_AdjointErrorEst"
      THEN {CoLocal(n, <<>>, ha) : n \in 0 .. MaxElems, ha \in BOOLEAN}
      ELSE {CoLocal(n, <<>>, FALSE) : n \in 0 .. MaxElems}

\* The run of a process: the shared routine on the process's own data.
CoConfig(r, l) ==
  Config(r.fn, r.dim, l.nelems, r.fn = "TMR_ComputeReconSolution",
         r.fn = "TMR_ComputeReconSolution", l.groups, l.has_aux,
         IF l.has_aux THEN AllElems(l.nelems) ELSE <<>>, r.calls)

CoSeq(p) == coseq[p]

\* The collective operation process p executes next.
CoNext(p) == CoSeq(p)[copos[p] + 1]

CoReturned(p) == copos[p] = Len(CoSeq(p))

CoBeginOf(op) ==
  IF op = "endSetValues" THEN "beginSetValues" ELSE "beginDistributeValues"

\* The positions in cs, before position j, of the begins the end at
\* position j may complete.
CoBegins(cs, j) ==
  {i \in 1 .. j - 1 : cs[i].op = CoBeginOf(cs[j].op) /\ cs[i].v = cs[j].v}

\* Process q has executed, as its i-th collective operation, the operation
\* s.
CoExecuted(q, i, s) ==
  /\ copos[q] >= i
  /\ CoSeq(q)[i] = s

\* Process q is inside, or has left, the all-reduce that is its j-th
\* collective operation.
CoEntered(q, j) ==
  /\ Len(CoSeq(q)) >= j
  /\ CoSeq(q)[j].op = "allreduce"
  /\ \/ copos[q] >= j
     \/ copos[q] = j - 1 /\ coin[q]

InitCo ==
  /\ GeoIdle
  /\ RefIdle
  /\ ProgIdle
  /\ KsIdle
  /\ WtIdle
  /\ NdIdle
  /\ RcIdle
  /\ KpIdle
  /\ QpIdle
  /\ CoIdle
  /\ CvIdle
  /\ KwIdle
  /\ DuIdle
  /\ DgIdle
  /\ QtIdle
  /\ AxIdle
  /\ CmIdle
  /\ TrIdle
  /\ InIdle

\* Every process enters the routine.
CoCall ==
  /\ copos = <<>>
  /\ \E r \in CoRoutines :
       \E l \in [Procs -> CoLocals(r)] :
         /\ cocfg' = [fn |-> r.fn, routine |-> r, local |-> l]
         /\ coseq' = [p \in Procs |-> Collectives(CoConfig(r, l[p]))]
  /\ copos' = [p \in Procs |-> 0]
  /\ coin' = [p \in Procs |-> FALSE]
  /\ UNCHANGED notCo

\* beginSetValues / beginDistributeValues: the process posts its messages
\* and goes on.
CoBegin(p) ==
  /\ copos # <<>>
  /\ ~CoReturned(p)
  /\ CoNext(p).op \in {"beginSetValues", "beginDistributeValues"}
  /\ copos' = [copos EXCEPT ![p] = @ + 1]
  /\ UNCHANGED <<cocfg, coin, coseq>>
  /\ UNCHANGED notCo

\* endSetValues / endDistributeValues: the process waits for the messages
\* of every other process's matching begin.
CoEnd(p) ==
  /\ copos # <<>>
  /\ ~CoReturned(p)
  /\ CoNext(p).op \in {"endSetValues", "endDistributeValues"}
  /\ \E i \in CoBegins(CoSeq(p), copos[p] + 1) :
       /\ \A k \in CoBegins(CoSeq(p), copos[p] + 1) : k <= i
       /\ \A q \in Procs : CoExecuted(q, i, CoSeq(p)[i])
  /\ copos' = [copos EXCEPT ![p] = @ + 1]
  /\ UNCHANGED <<cocfg, coin, coseq>>
  /\ UNCHANGED notCo

\* MPI_Allreduce: the process enters the reduction.
CoAllreduceEnter(p) ==
  /\ copos # <<>>
  /\ ~CoReturned(p)
  /\ CoNext(p).op = "allreduce"
  /\ ~coin[p]
  /\ coin' = [coin EXCEPT ![p] = TRUE]
  /\ UNCHANGED <<cocfg, copos, coseq>>
  /\ UNCHANGED notCo

\* MPI_Allreduce returns once every process has entered it.
CoAllreduceReturn(p) ==
  /\ copos # <<>>
  /\ coin[p]
  /\ \A q \in Procs : CoEntered(q, copos[p] + 1)
  /\ copos' = [copos EXCEPT ![p] = @ + 1]
  /\ coin' = [coin EXCEPT ![p] = FALSE]
  /\ UNCHANGED <<cocfg, coseq>>
  /\ UNCHANGED notCo

NextCo ==
  \/ CoCall
  \/ \E p \in Procs : CoBegin(p)
  \/ \E p \in Procs : CoEnd(p)
  \/ \E p \in Procs : CoAllreduceEnter(p)
  \/ \E p \in Procs : CoAllreduceReturn(p)

SpecCo == InitCo /\ [][NextCo]_vars

\* Process p can take its next step.
CoCanStep(p) ==
  IF CoReturned(p) THEN FALSE
  ELSE IF CoNext(p).op \in {"beginSetValues", "beginDistributeValues"}
    THEN TRUE
  ELSE IF CoNext(p).op = "allreduce"
    THEN ~coin[p] \/ \A q \in Procs : CoEntered(q, copos[p] + 1)
  ELSE \E i \in CoBegins(CoSeq(p), copos[p] + 1) :
         /\ \A k \in CoBegins(CoSeq(p), copos[p] + 1) : k <= i
         /\ \A q \in Procs : CoExecuted(q, i, CoSeq(p)[i])

\* C18: in a reconstruction, estimator or functional call every process
\* executes the same sequence of collective operations (finalize and
\* distribute pairs, all-reduces) whatever elements and name-group contents
\* it holds, and as long as some process has not returned, some process can
\* go on: no process waits forever in a collective.
SameCollectivesNoWait ==
  copos # <<>> =>
    /\ \A p \in Procs, q \in Procs : CoSeq(p) = CoSeq(q)
    /\ (\A p \in Procs : CoReturned(p)) \/ (\E p \in Procs : CoCanStep(p))

\* Every process has returned from a call in which one process holds no
\* element and another holds some, after at least one all-reduce or one
\* finalize / distribute pair per name.
EmptyProcessReturned ==
  /\ copos # <<>>
  /\ \A p \in Procs : CoReturned(p)
  /\ \E p \in Procs, q \in Procs :
       /\ cocfg.local[p].nelems = 0
       /\ cocfg.local[q].nelems > 0
       /\ Len(CoSeq(p)) > 0


(***************************************************************************)
(* The external nodes of TMRCurvatureConstraint: init collects ext_nodes   *)
(* from the forest's local node numbers and builds the distribution        *)
(* object from them; evalConstraint copies the design values into the      *)
(* owned part of xvec and distributes them.                                *)
(***************************************************************************)

MaxLocalNodes == 3
MaxNodeNum == 3

\* forest->getNodeNumbers: the local node numbers (negative: dependent).
NodeNumberLists ==
  UNION {[1 .. n -> -1 .. MaxNodeNum] : n \in 0 .. MaxLocalNodes}

\* forest->getOwnedNodeRange on two processes: range[0], range[1], range[2],
\* by C index.
OwnedRanges == {[i \in 0 .. 2 |-> IF i = 0 THEN 0
                                  ELSE IF i = 1 THEN a ELSE MaxNodeNum + 1] :
                  a \in 0 .. MaxNodeNum + 1}

CvConfigs ==
  {[fn |-> "TMRCurvatureConstraint", rank |-> r, range |-> g,
    node_numbers |-> x] :
     r \in {0, 1}, g \in OwnedRanges, x \in NodeNumberLists}

\* node_numbers[i] >= 0 && (node_numbers[i] < range[rank] ||
\*                          node_numbers[i] >= range[rank+1])
IsExternal(c, node) ==
  /\ node >= 0
  /\ \/ node < c.range[c.rank]
     \/ node >= c.range[c.rank + 1]

\* for ( int i = 0; i < num_ext_nodes; i++ ): the loop of init from index i
\* on, with num_ext_nodes entries in ext so far.  node_numbers is read by C
\* index; the loop bound is the running count.
RECURSIVE ExtNodesLoop(_, _, _)
ExtNodesLoop(c, i, ext) ==
  IF i < Len(ext) /\ i < Len(c.node_numbers)
    THEN ExtNodesLoop(c, i + 1,
                      IF IsExternal(c, c.node_numbers[i + 1])
                        THEN Append(ext, c.node_numbers[i + 1])
                        ELSE ext)
    ELSE ext

\* int num_ext_nodes = 0; ext_nodes = new int[num_ext_nodes]; the loop.
ExtNodes(c) == ExtNodesLoop(c, 0, <<>>)

\* The value the owner of a node holds for it after evalConstraint has
\* copied the design values into xvec.
OwnerValue(node) == node + 1

InitCv ==
  /\ GeoIdle
  /\ RefIdle
  /\ ProgIdle
  /\ KsIdle
  /\ WtIdle
  /\ NdIdle
  /\ RcIdle
  /\ KpIdle
  /\ QpIdle
  /\ CoIdle
  /\ CvIdle
  /\ KwIdle
  /\ DuIdle
  /\ DgIdle
  /\ QtIdle
  /\ AxIdle
  /\ CmIdle
  /\ TrIdle
  /\ InIdle

\* init is entered on a process of a forest.
CvCall ==
  /\ cvpc = "idle"
  /\ \E c \in CvConfigs : cvcfg' = c
  /\ cvpc' = "init"
  /\ UNCHANGED <<cvext, cvheld>>
  /\ UNCHANGED notCv

\* init builds ext_nodes, ext_indices and ext_dist and creates xvec on
\* them.
CvInit ==
  /\ cvpc = "init"
  /\ cvext' = ExtNodes(cvcfg)
  /\ cvheld' = [k \in 1 .. Len(ExtNodes(cvcfg)) |-> 0]
  /\ cvpc' = "ready"
  /\ UNCHANGED cvcfg
  /\ UNCHANGED notCv

\* evalConstraint copies the design values into the owned entries of xvec.
CvCopy ==
  /\ cvpc = "ready"
  /\ cvpc' = "copied"
  /\ UNCHANGED <<cvcfg, cvext, cvheld>>
  /\ UNCHANGED notCv

\* xvec->beginDistributeValues(); xvec->endDistributeValues(): the process
\* receives the owner's value of every node of ext_nodes.
CvDistribute ==
  /\ cvpc = "copied"
  /\ cvheld' = [k \in 1 .. Len(cvext) |-> OwnerValue(cvext[k])]
  /\ cvpc' = "distributed"
  /\ UNCHANGED <<cvcfg, cvext>>
  /\ UNCHANGED notCv

NextCv ==
  \/ CvCall
  \/ CvInit
  \/ CvCopy
  \/ CvDistribute

SpecCv == InitCv /\ [][NextCv]_vars

\* C20: init builds ext_nodes from every local node number that is
\* non-negative and outside the owned range, so after the distribute the
\* process holds the owner's value for every such node it references.
ExternalNodesHeld ==
  cvpc = "distributed" =>
    \A i \in 1 .. Len(cvcfg.node_numbers) :
      IsExternal(cvcfg, cvcfg.node_numbers[i]) =>
        \E k \in 1 .. Len(cvext) :
          /\ cvext[k] = cvcfg.node_numbers[i]
          /\ cvheld[k] = OwnerValue(cvcfg.node_numbers[i])


(***************************************************************************)
(* The knot weights and the enrichment-function values of the 3D least-    *)
(* squares setup: computeElemRecon3D and the knot loops of                 *)
(* TMRStressConstraint::evalConDeriv.                                      *)
(***************************************************************************)

\* The mesh orders of the data model.
AdmittedOrders == {2, 3, 4}

\* double wvals[3]
WvalsLen == 3

\* getNum3dEnrich(order)
getNum3dEnrich(order) == IF order = 2 THEN 9 ELSE 15

\* if (order == 2){ wvals[0] = wvals[1] = 1.0; }
\* else if (order == 3){ wvals[0] = wvals[2] = 0.5; wvals[1] = 1.0; }
\* The C indices of wvals the routine assigns.
WvalsAssigned(order) ==
  IF order = 2 THEN {0, 1}
  ELSE IF order = 3 THEN {0, 1, 2}
  ELSE {}

\* if (order == 2){ eval2ndEnrichmentFuncs3D(...); }
\* else if (order == 3){ eval3rdEnrichmentFuncs3D(...); }
\* The C indices of Nr, Nar, Nbr, Ncr assigned at a knot.
EnrichAssigned(order) ==
  IF order = 2 THEN 0 .. 8
  ELSE IF order = 3 THEN 0 .. 14
  ELSE {}

\* for ( kk ) for ( jj ) for ( ii = 0; ii < order; ii++ ): the counters
\* after one more step of the innermost loop.
KnotLoopAdvance(idx, order) ==
  IF idx[1] + 1 < order THEN <<idx[1] + 1, idx[2], idx[3]>>
  ELSE IF idx[2] + 1 < order THEN <<0, idx[2] + 1, idx[3]>>
  ELSE <<0, 0, idx[3] + 1>>

KwConfigs ==
  {[fn |-> f, order |-> o] :
     f \in {"computeElemRecon3D", "evalConDeriv"}, o \in AdmittedOrders}

InitKw ==
  /\ GeoIdle
  /\ RefIdle
  /\ ProgIdle
  /\ KsIdle
  /\ WtIdle
  /\ NdIdle
  /\ RcIdle
  /\ KpIdle
  /\ QpIdle
  /\ CoIdle
  /\ CvIdle
  /\ KwIdle
  /\ DuIdle
  /\ DgIdle
  /\ QtIdle
  /\ AxIdle
  /\ CmIdle
  /\ TrIdle
  /\ InIdle

\* The routine is entered and sets the weights for its order.
KwCall ==
  /\ kwpc \in {"idle", "done"}
  /\ \E c \in KwConfigs :
       /\ kwcfg' = c
       /\ kwwset' = WvalsAssigned(c.order)
  /\ kwpc' = "knots"
  /\ kwidx' = <<0, 0, 0>>
  /\ kwnset' = {}
  /\ kwwread' = {}
  /\ kwnread' = {}
  /\ UNCHANGED notKw

\* One pass of the body of the knot loops: the enrichment functions are
\* evaluated for the order, then the rows of A (and of b or dbdu) are
\* computed from wvals[ii], wvals[jj], wvals[kk] and from the first nenrich
\* entries of Nar, Nbr, Ncr.
KwKnot ==
  /\ kwpc = "knots"
  /\ kwidx[3] < kwcfg.order
  /\ kwnset' = EnrichAssigned(kwcfg.order)
  /\ kwwread' = kwwread \cup {kwidx[1], kwidx[2], kwidx[3]}
  /\ kwnread' = kwnread \cup (0 .. getNum3dEnrich(kwcfg.order) - 1)
  /\ kwidx' = KnotLoopAdvance(kwidx, kwcfg.order)
  /\ UNCHANGED <<kwcfg, kwpc, kwwset>>
  /\ UNCHANGED notKw

\* The knot loops end.
KwDone ==
  /\ kwpc = "knots"
  /\ kwidx[3] >= kwcfg.order
  /\ kwpc' = "done"
  /\ UNCHANGED <<kwcfg, kwidx, kwwset, kwnset, kwwread, kwnread>>
  /\ UNCHANGED notKw

NextKw ==
  \/ KwCall
  \/ KwKnot
  \/ KwDone

SpecKw == InitKw /\ [][NextKw]_vars

\* C21: for every admitted mesh order (2, 3, 4) the 3D reconstruction and
\* the 3D KS sensitivity read only knot weights and enrichment values that
\* were assigned for that order, and every index into the knot-weight array
\* is inside the array.
KnotDataAssigned ==
  /\ kwwread \subseteq kwwset
  /\ kwnread \subseteq kwnset
  /\ \A i \in kwwread : i < WvalsLen


(***************************************************************************)
(* The derivative of the enrichment coefficients with respect to the       *)
(* coarse unknowns: addEnrichDeriv stores it in dubardu with a             *)
(* column-major matrix product, and evalConDeriv reads it in the product   *)
(* (df/dubar)(dubar/du).  Arrays are functions of their C index.           *)
(***************************************************************************)

MaxM == 2
MaxN == 2
MaxP == 3

\* An array of len entries whose values depend on the seed.
DuArray(len, sd) == [x \in 0 .. len - 1 |-> (((sd + 1) * (x + 1)) + (x * x)) % 3]

DuConfigs ==
  {[fn |-> "evalConDeriv", m |-> m, n |-> n, p |-> p,
    dubar_duderiv |-> DuArray(m * n, sa), dbdu |-> DuArray(n * p, sb),
    dfdubar |-> [x \in 0 .. 3 * m - 1 |-> x + 1]] :
     m \in 1 .. MaxM, n \in 1 .. MaxN, p \in 1 .. MaxP,
     sa \in 0 .. NumSeeds - 1, sb \in 0 .. NumSeeds - 1}

\* The sum over k < n of A(i, k)*B(k, j) for column-major A and B with
\* leading dimensions lda and ldb.
RECURSIVE GemmEntry(_, _, _, _, _, _, _)
GemmEntry(n, A, lda, B, ldb, i, j) ==
  IF n = 0 THEN 0
  ELSE GemmEntry(n - 1, A, lda, B, ldb, i, j)
       + A[i + lda * (n - 1)] * B[(n - 1) + ldb * j]

\* BLASgemm("N", "N", &m, &p, &n, &a, A, &lda, B, &ldb, &b, C, &ldc) with
\* a = 1, b = 0: the m x p product, stored column by column.
BLASgemmNN(m, p, n, A, lda, B, ldb, ldc) ==
  [x \in 0 .. ldc * p - 1 |->
     IF x % ldc < m THEN GemmEntry(n, A, lda, B, ldb, x % ldc, x \div ldc)
                    ELSE 0]

\* The index at which the old, transposed product read dubardu.
DubarduIndexTransposed(m, p, ii, jj) == p * ii + jj

\* dubardu[m*jj+ii]
DubarduIndex(m, p, ii, jj) == m * jj + ii

InitDu ==
  /\ GeoIdle
  /\ RefIdle
  /\ ProgIdle
  /\ KsIdle
  /\ WtIdle
  /\ NdIdle
  /\ RcIdle
  /\ KpIdle
  /\ QpIdle
  /\ CoIdle
  /\ CvIdle
  /\ KwIdle
  /\ DuIdle
  /\ DgIdle
  /\ QtIdle
  /\ AxIdle
  /\ CmIdle
  /\ TrIdle
  /\ InIdle

\* An element iteration has filled A, dbdu and dfdubar: memset(dubardu, 0).
DuCall ==
  /\ dupc \in {"idle", "done"}
  /\ \E c \in DuConfigs :
       /\ ducfg' = c
       /\ dubardu' = [x \in 0 .. c.m * c.p - 1 |-> 0]
       /\ dfdu_elem' = [x \in 0 .. 3 * c.p - 1 |-> 0]
  /\ dupc' = "enrich"
  /\ duidx' = <<0, 0>>
  /\ duread' = {}
  /\ UNCHANGED notDu

\* addEnrichDeriv: dubardu = (dubar/duderiv)(db/du); then
\* memset(dfdu_elem, 0).
DuAddEnrichDeriv ==
  /\ dupc = "enrich"
  /\ dubardu' = BLASgemmNN(ducfg.m, ducfg.p, ducfg.n, ducfg.dubar_duderiv,
                           ducfg.m, ducfg.dbdu, ducfg.n, ducfg.m)
  /\ dfdu_elem' = [x \in 0 .. 3 * ducfg.p - 1 |-> 0]
  /\ dupc' = "product"
  /\ UNCHANGED <<ducfg, duidx, duread>>
  /\ UNCHANGED notDu

\* for ( ii < m ) for ( jj < p ) for ( c < 3 ):
\*   dfdu_elem[3*jj+c] += dfdubar[3*ii+c]*dubardu[m*jj+ii]
DuProduct ==
  /\ dupc = "product"
  /\ duidx[1] < ducfg.m
  /\ LET ii == duidx[1]
         jj == duidx[2]
         at == DubarduIndex(ducfg.m, ducfg.p, ii, jj)
     IN  /\ dfdu_elem' =
              [x \in 0 .. 3 * ducfg.p - 1 |->
                 IF x \div 3 = jj
                   THEN dfdu_elem[x]
                        + ducfg.dfdubar[3 * ii + (x % 3)] * dubardu[at]
                   ELSE dfdu_elem[x]]
         /\ duread' = duread \cup {[ii |-> ii, jj |-> jj, at |-> at,
                                    val |-> dubardu[at]]}
         /\ duidx' = IF jj + 1 < ducfg.p THEN <<ii, jj + 1>>
                                         ELSE <<ii + 1, 0>>
  /\ UNCHANGED <<ducfg, dupc, dubardu>>
  /\ UNCHANGED notDu

\* The product is complete: dfdu->setValues(len, nodes, dfdu_elem, ...).
DuDone ==
  /\ dupc = "product"
  /\ duidx[1] >= ducfg.m
  /\ dupc' = "done"
  /\ UNCHANGED <<ducfg, dubardu, duidx, dfdu_elem, duread>>
  /\ UNCHANGED notDu

NextDu ==
  \/ DuCall
  \/ DuAddEnrichDeriv
  \/ DuProduct
  \/ DuDone

SpecDu == InitDu /\ [][NextDu]_vars

\* The derivative of enrichment coefficient ii with respect to unknown jj:
\* row ii of dubar/duderiv times column jj of db/du.
DubarDu(ii, jj) ==
  GemmEntry(ducfg.n, ducfg.dubar_duderiv, ducfg.m, ducfg.dbdu, ducfg.n,
            ii, jj)

\* C22: the factor the chain-rule product uses for enrichment coefficient
\* ii and coarse unknown jj is read from dubardu at index m*jj + ii, and
\* that is where addEnrichDeriv stored the derivative of coefficient ii
\* with respect to unknown jj.
ChainRuleReadsStoredEntry ==
  \A r \in duread :
    /\ r.at = ducfg.m * r.jj + r.ii
    /\ r.val = DubarDu(r.ii, r.jj)

\* The product has run over a derivative matrix that is not square and in
\* which two entries differ.
ChainRuleProductDone ==
  /\ dupc = "done"
  /\ ducfg.m # ducfg.p
  /\ \E r \in duread, q \in duread : r.val # q.val


(***************************************************************************)
(* The comparison of degenerate edges (src/src/TMRTriangularize.c):        *)
(* removeDegenerateEdges puts the larger node number of every edge first   *)
(* and sorts the edges with compare_degen_edges.                           *)
(***************************************************************************)

MaxNodeIndex == 3

\* The lists of one or two degenerate edges given to removeDegenerateEdges.
DegenEdges == (0 .. MaxNodeIndex) \X (0 .. MaxNodeIndex)

\* if (sorted_degen[2*i+1] > sorted_degen[2*i]){ swap }
FlipEdge(e) == IF e[2] > e[1] THEN <<e[2], e[1]>> ELSE e

\* compare_degen_edges(a, b).  The differences are taken in uint32_t and
\* returned as int; for node numbers below 2^31 that is the signed
\* difference.
compare_degen_edges(a, b) ==
  IF a[1] = b[1] THEN a[1] - b[1] ELSE a[2] - b[2]

InitDg ==
  /\ GeoIdle
  /\ RefIdle
  /\ ProgIdle
  /\ KsIdle
  /\ WtIdle
  /\ NdIdle
  /\ RcIdle
  /\ KpIdle
  /\ QpIdle
  /\ CoIdle
  /\ CvIdle
  /\ KwIdle
  /\ DuIdle
  /\ DgIdle
  /\ QtIdle
  /\ AxIdle
  /\ CmIdle
  /\ TrIdle
  /\ InIdle

\* removeDegenerateEdges copies the edges into sorted_degen, larger node
\* number first, and calls qsort.
DgCall ==
  /\ dgpc \in {"idle", "compared"}
  /\ \E a \in DegenEdges, b \in DegenEdges :
       dgpair' = <<FlipEdge(a), FlipEdge(b)>>
  /\ dgpc' = "sorting"
  /\ dgres' = 0
  /\ UNCHANGED notDg

\* qsort compares two of the edges.
DgCompare ==
  /\ dgpc = "sorting"
  /\ \E i \in {1, 2}, j \in {1, 2} :
       /\ dgres' = compare_degen_edges(dgpair[i], dgpair[j])
       /\ dgpair' = <<dgpair[i], dgpair[j]>>
  /\ dgpc' = "compared"
  /\ UNCHANGED notDg

NextDg ==
  \/ DgCall
  \/ DgCompare

SpecDg == InitDg /\ [][NextDg]_vars

\* The sign of an integer.
Sign(x) == IF x < 0 THEN -1 ELSE IF x > 0 THEN 1 ELSE 0

\* C23: compare_degen_edges orders two edges by their first index and, only
\* when the first indices are equal, by their second index; it returns 0
\* only for two identical edges.
EdgesOrderedLexicographically ==
  dgpc = "compared" =>
    LET a == dgpair[1]
        b == dgpair[2]
    IN  /\ a[1] # b[1] => Sign(dgres) = Sign(a[1] - b[1])
        /\ a[1] = b[1] => Sign(dgres) = Sign(a[2] - b[2])
        /\ dgres = 0 => a = b


(***************************************************************************)
(* The quadtree of points, TMRQuadNode (src/src/TMRTriangularize.c).  A    *)
(* node is named by its path from the root: the sequence of quadrants      *)
(* taken.  The domain is the square [0, 2^MAX_DEPTH)^2 and points have     *)
(* integer coordinates.                                                    *)
(***************************************************************************)

MAX_DEPTH == 2
NODES_PER_LEVEL == 2
MaxQuadPoints == 3

\* The four children of a node.
Quadrants == {"low_left", "low_right", "up_left", "up_right"}

\* h = 1 << (MAX_DEPTH - level - 1)
QuadH(level) == Pow2(MAX_DEPTH - level - 1)

\* The corner <<u, v>> of the node with the given path: the children are
\* created at (u, v), (u+h, v), (u, v+h), (u+h, v+h).
RECURSIVE QuadCorner(_)
QuadCorner(path) ==
  IF path = <<>> THEN <<0, 0>>
  ELSE LET up == SubSeq(path, 1, Len(path) - 1)
           c == QuadCorner(up)
           h == QuadH(Len(up))
           q == path[Len(path)]
       IN  <<c[1] + (IF q \in {"low_right", "up_right"} THEN h ELSE 0),
             c[2] + (IF q \in {"up_left", "up_right"} THEN h ELSE 0)>>

\* The planes x, y that divide the node (initialize).
QuadPlanes(path) ==
  <<QuadCorner(path)[1] + QuadH(Len(path)),
    QuadCorner(path)[2] + QuadH(Len(path))>>

\* The child of the node that addNode and deleteNode descend into for pt.
QuadChild(path, pt) ==
  LET x == QuadPlanes(path)[1]
      y == QuadPlanes(path)[2]
  IN  Append(path, IF pt[1] < x /\ pt[2] < y THEN "low_left"
                   ELSE IF pt[1] < x THEN "up_left"
                   ELSE IF pt[2] < y THEN "low_right"
                   ELSE "up_right")

\* A node without children and without points (initialize).
QuadLeaf == [split |-> FALSE, pts |-> <<>>]

\* The tree with the four children of the node allocated.
QuadSplit(t, path) ==
  [q \in DOMAIN t \cup {Append(path, k) : k \in Quadrants} |->
     IF q = path THEN [split |-> TRUE, pts |-> t[path].pts]
     ELSE IF q \in DOMAIN t THEN t[q]
     ELSE QuadLeaf]

RECURSIVE addNode(_, _, _, _)
RECURSIVE QuadReadd(_, _, _, _)

\* for ( k < NODES_PER_LEVEL ) addNode(pt_nums[k], &pts[2*k]) on the node
\* itself, from index k on.
QuadReadd(t, path, old, k) ==
  IF k > Len(old) THEN t
  ELSE QuadReadd(addNode(t, path, old[k].num, old[k].pt), path, old, k + 1)

\* TMRQuadNode::addNode(num, pt) on the node path of the tree t.
addNode(t, path, num, pt) ==
  IF t[path].split
    THEN addNode(t, QuadChild(path, pt), num, pt)
  ELSE IF Len(t[path].pts) < NODES_PER_LEVEL
    THEN [t EXCEPT ![path].pts = Append(@, [num |-> num, pt |-> pt])]
  ELSE LET s == QuadReadd(QuadSplit(t, path), path, t[path].pts, 1)
       IN  [s EXCEPT ![path].pts = <<>>]

\* TMRQuadNode::deleteNode(num, pt) on the node path of the tree t: the
\* tree it leaves and the value it returns.
RECURSIVE deleteNode(_, _, _, _)
deleteNode(t, path, num, pt) ==
  IF t[path].split
    THEN deleteNode(t, QuadChild(path, pt), num, pt)
  ELSE IF \A i \in 1 .. Len(t[path].pts) : t[path].pts[i].num # num
    THEN [tree |-> t, ret |-> 0]
  ELSE LET i == CHOOSE j \in 1 .. Len(t[path].pts) :
                  /\ t[path].pts[j].num = num
                  /\ \A l \in 1 .. j - 1 : t[path].pts[l].num # num
       IN  [tree |-> [t EXCEPT ![path].pts =
                        SubSeq(@, 1, i - 1) \o SubSeq(@, i + 1, Len(@))],
            ret |-> 1]

\* The leaf addNode reaches for pt.
RECURSIVE QuadLeafOf(_, _, _)
QuadLeafOf(t, path, pt) ==
  IF t[path].split THEN QuadLeafOf(t, QuadChild(path, pt), pt) ELSE path

QuadPoints == (0 .. Pow2(MAX_DEPTH) - 1) \X (0 .. Pow2(MAX_DEPTH) - 1)

InitQt ==
  /\ GeoIdle
  /\ RefIdle
  /\ ProgIdle
  /\ KsIdle
  /\ WtIdle
  /\ NdIdle
  /\ RcIdle
  /\ KpIdle
  /\ QpIdle
  /\ CoIdle
  /\ CvIdle
  /\ KwIdle
  /\ DuIdle
  /\ DgIdle
  /\ QtIdle
  /\ AxIdle
  /\ CmIdle
  /\ TrIdle
  /\ InIdle

\* new TMRQuadNode(domain): the root, a leaf without points.
QtCreate ==
  /\ qtree = <<>>
  /\ qtree' = [q \in {<<>>} |-> QuadLeaf]
  /\ qtlast' = [fn |-> "TMRQuadNode"]
  /\ UNCHANGED qtcount
  /\ UNCHANGED notQt

\* The points the leaves of the tree hold.
QuadStored(t) ==
  UNION {{t[q].pts[i].pt : i \in 1 .. Len(t[q].pts)} : q \in DOMAIN t}

\* root->addNode(num, pt) with a point number not used before and a
\* location no stored point has.  A leaf at the deepest level is not split.
QtAddNode ==
  /\ qtree # <<>>
  /\ qtcount < MaxQuadPoints
  /\ \E pt \in QuadPoints \ QuadStored(qtree) :
       /\ \/ Len(QuadLeafOf(qtree, <<>>, pt)) < MAX_DEPTH
          \/ Len(qtree[QuadLeafOf(qtree, <<>>, pt)].pts) < NODES_PER_LEVEL
       /\ qtree' = addNode(qtree, <<>>, qtcount, pt)
       /\ qtlast' = [fn |-> "addNode", num |-> qtcount, pt |-> pt, ret |-> 0]
  /\ qtcount' = qtcount + 1
  /\ UNCHANGED notQt

\* root->deleteNode(num, pt) at the location of a stored point or of the
\* last call.
QtDeleteNode ==
  /\ qtree # <<>>
  /\ \E num \in 0 .. qtcount - 1,
        pt \in QuadStored(qtree)
                \cup (IF qtlast.fn \in {"addNode", "deleteNode"}
                        THEN {qtlast.pt} ELSE {}) :
       /\ qtree' = deleteNode(qtree, <<>>, num, pt).tree
       /\ qtlast' = [fn |-> "deleteNode", num |-> num, pt |-> pt,
                     ret |-> deleteNode(qtree, <<>>, num, pt).ret]
  /\ UNCHANGED qtcount
  /\ UNCHANGED notQt

NextQt ==
  \/ QtCreate
  \/ QtAddNode
  \/ QtDeleteNode

SpecQt == InitQt /\ [][NextQt]_vars

\* C24: after addNode(num, pt) returns, the point is stored in the
\* quadtree (the leaf searched for pt holds it, so a following
\* deleteNode(num, pt) returns 1 and findClosest(pt) can return num),
\* whatever the tree held before, also when the leaf was full and had to
\* be split.
AddedNodeStored ==
  qtlast.fn = "addNode" =>
    /\ deleteNode(qtree, <<>>, qtlast.num, qtlast.pt).ret = 1
    /\ \E i \in 1 .. Len(qtree[QuadLeafOf(qtree, <<>>, qtlast.pt)].pts) :
         qtree[QuadLeafOf(qtree, <<>>, qtlast.pt)].pts[i] =
           [num |-> qtlast.num, pt |-> qtlast.pt]


(***************************************************************************)
(* The auxiliary elements of TMR_AdjointErrorEst: the container is sorted  *)
(* by element number and a cursor walks it while the elements are visited  *)
(* in increasing order.                                                    *)
(***************************************************************************)

\* The calls: the 2D or 3D routine on nelems elements, with no auxiliary
\* container or with one holding elements bound to element numbers of the
\* assembler, in any order.
AxConfigs ==
  UNION {{[fn |-> "TMR_AdjointErrorEst", dim |-> d, nelems |-> n,
           has_aux |-> ha, aux |-> IF ha THEN x ELSE <<>>] :
            d \in {2, 3}, ha \in BOOLEAN, x \in AuxLists(n)} :
         n \in 0 .. MaxElems}

\* aux_elements->sort(); getAuxElements(&aux): the array ordered by element
\* number, each entry with its place in the container as its identity.
AuxSorted(c) ==
  SortSeq([k \in 1 .. Len(c.aux) |-> [num |-> c.aux[k], id |-> k]],
          LAMBDA x, y : x.num < y.num)

\* A loop test that looks only at the cursor.
AuxLoopTestCursorOnly(aux, count, elem) == count < Len(aux)

\* while (aux_count < num_aux_elems && aux[aux_count].num == elem)
AuxLoopTest(aux, count, elem) ==
  IF count < Len(aux) THEN aux[count + 1].num = elem ELSE FALSE

InitAx ==
  /\ GeoIdle
  /\ RefIdle
  /\ ProgIdle
  /\ KsIdle
  /\ WtIdle
  /\ NdIdle
  /\ RcIdle
  /\ KpIdle
  /\ QpIdle
  /\ CoIdle
  /\ CvIdle
  /\ KwIdle
  /\ DuIdle
  /\ DgIdle
  /\ QtIdle
  /\ AxIdle
  /\ CmIdle
  /\ TrIdle
  /\ InIdle

\* The routine is entered: the container is sorted, aux_count = 0.
AxCall ==
  /\ axpc \in {"idle", "done"}
  /\ \E c \in AxConfigs :
       /\ axcfg' = c
       /\ axaux' = IF c.has_aux THEN AuxSorted(c) ELSE <<>>
  /\ axpc' = "loop"
  /\ axcount' = 0
  /\ axelem' = 0
  /\ axcalls' = <<>>
  /\ UNCHANGED notAx

\* An element iteration starts: element->addLocalizedError(...).
AxElement ==
  /\ axpc = "loop"
  /\ axelem < axcfg.nelems
  /\ axpc' = "forces"
  /\ UNCHANGED <<axcfg, axaux, axcount, axelem, axcalls>>
  /\ UNCHANGED notAx

\* aux[aux_count].elem->addLocalizedError(...); aux_count++
AxAuxCall ==
  /\ axpc = "forces"
  /\ AuxLoopTest(axaux, axcount, axelem)
  /\ axcalls' = Append(axcalls, [id |-> axaux[axcount + 1].id,
                                 elem |-> axelem])
  /\ axcount' = axcount + 1
  /\ UNCHANGED <<axcfg, axpc, axaux, axelem>>
  /\ UNCHANGED notAx

\* The while loop ends: nodal_error->setValues(...); elem++.
AxElementEnd ==
  /\ axpc = "forces"
  /\ ~AuxLoopTest(axaux, axcount, axelem)
  /\ axpc' = "loop"
  /\ axelem' = axelem + 1
  /\ UNCHANGED <<axcfg, axaux, axcount, axcalls>>
  /\ UNCHANGED notAx

\* The element loop ends.
AxLoopEnd ==
  /\ axpc = "loop"
  /\ axelem >= axcfg.nelems
  /\ axpc' = "done"
  /\ UNCHANGED <<axcfg, axaux, axcount, axelem, axcalls>>
  /\ UNCHANGED notAx

NextAx ==
  \/ AxCall
  \/ AxElement
  \/ AxAuxCall
  \/ AxElementEnd
  \/ AxLoopEnd

SpecAx == InitAx /\ [][NextAx]_vars

\* The calls made so far on the auxiliary element with identity id.
AxCallsOf(id) == {k \in 1 .. Len(axcalls) : axcalls[k].id = id}

\* C25: in TMR_AdjointErrorEst, for any list of auxiliary elements, each
\* auxiliary element's addLocalizedError is invoked exactly once, during
\* the iteration of the element whose number it carries and during no
\* other iteration.
AuxCalledOnceOnItsElement ==
  axpc # "idle" =>
    \A id \in 1 .. Len(axcfg.aux) :
      /\ Cardinality(AxCallsOf(id)) <= 1
      /\ \A k \in AxCallsOf(id) : axcalls[k].elem = axcfg.aux[id]
      /\ axpc = "done" => Cardinality(AxCallsOf(id)) = 1

\* The routine has finished on a container that was not in element order,
\* and every auxiliary element has been called.
AuxUnsortedShared ==
  /\ axpc = "done"
  /\ \E i \in 1 .. Len(axcfg.aux), j \in 1 .. Len(axcfg.aux) :
       i < j /\ axcfg.aux[i] > axcfg.aux[j]
  /\ Len(axcalls) = Len(axcfg.aux)


(***************************************************************************)
(* TMRCurvatureConstraint::evalConstraint on several processes: the pass   *)
(* that finds the local maximum of the per-element cost, the MPI_MAX       *)
(* reduction, and the aggregation pass that uses the reduced value.  The   *)
(* element mean val of the design field is counted in halves, so that the  *)
(* indicator factor 1 - 16*(val - 0.5)^4 is the integer 1 - (2*val - 1)^4. *)
(***************************************************************************)

\* The largest value of kmax + log(1 + exp(k*kdiff))/k at an element
\* centroid; the term is positive (kmax is a maximum of absolute values).
MaxCurv == 2

\* The lower ends of the ranges the design field takes, in halves: the
\* routine accepts any vector, also one outside [0, 1].
FieldLows == {0 - 1, 0, 1}

\* val = sum_j 0.125*elem_vals[j] of element i of process p, in halves.
CmVal(c, p, i) == c.lo + ((c.seed + p + i) % 3)

\* factor = 1.0 - 16*(val - 0.5)^4
CmFactor(v2) == 1 - ((v2 - 1) * (v2 - 1) * (v2 - 1) * (v2 - 1))

\* kmax + log(1.0 + exp(aggregate_weight*kdiff))/aggregate_weight
CmCurv(c, p, i) == 1 + ((c.seed + i) % MaxCurv)

\* result = evalCurvature(val, g, H) of element i of process p
CmResult(c, p, i) == CmFactor(CmVal(c, p, i)) * CmCurv(c, p, i)

\* A first pass that keeps the result of the element visited last.
CurvMaxUpdateLast(result, max) == result

\* if (result > max_curvature){ max_curvature = result; }
CurvMaxUpdate(result, max) == IF result > max THEN result ELSE max

\* The calls tried: each process has its own number of elements, possibly
\* none.
CmConfigs ==
  {[fn |-> "evalConstraint", nel |-> n, seed |-> sd, lo |-> lo] :
     n \in [Procs -> 0 .. MaxPoints], sd \in 0 .. NumSeeds - 1,
     lo \in FieldLows}

InitCm ==
  /\ GeoIdle
  /\ RefIdle
  /\ ProgIdle
  /\ KsIdle
  /\ WtIdle
  /\ NdIdle
  /\ RcIdle
  /\ KpIdle
  /\ QpIdle
  /\ CoIdle
  /\ CvIdle
  /\ KwIdle
  /\ DuIdle
  /\ DgIdle
  /\ QtIdle
  /\ AxIdle
  /\ CmIdle
  /\ TrIdle
  /\ InIdle

\* Every process enters evalConstraint; max_curvature = 0.0
CmCall ==
  /\ cmpc = <<>>
  /\ \E c \in CmConfigs : cmcfg' = c
  /\ cmpc' = [p \in Procs |-> "max"]
  /\ cmi' = [p \in Procs |-> 1]
  /\ cmmax' = [p \in Procs |-> 0]
  /\ cmin' = [p \in Procs |-> 0]
  /\ UNCHANGED notCm

\* One element of the first loop on process p.
CmMaxElement(p) ==
  /\ cmpc # <<>> /\ cmpc[p] = "max" /\ cmi[p] <= cmcfg.nel[p]
  /\ cmmax' = [cmmax EXCEPT ![p] = CurvMaxUpdate(CmResult(cmcfg, p, cmi[p]), @)]
  /\ cmi' = [cmi EXCEPT ![p] = @ + 1]
  /\ UNCHANGED <<cmcfg, cmpc, cmin, notCm>>

\* Process p enters the MPI_MAX reduction with its local maximum.
CmMaxReduceEnter(p) ==
  /\ cmpc # <<>> /\ cmpc[p] = "max" /\ cmi[p] > cmcfg.nel[p]
  /\ cmin' = [cmin EXCEPT ![p] = cmmax[p]]
  /\ cmpc' = [cmpc EXCEPT ![p] = "maxReduce"]
  /\ UNCHANGED <<cmcfg, cmi, cmmax, notCm>>

\* The reduction returns on p once every process has entered it.
CmMaxReduceReturn(p) ==
  /\ cmpc # <<>> /\ cmpc[p] = "maxReduce"
  /\ \A q \in Procs : cmpc[q] # "max"
  /\ cmmax' = [cmmax EXCEPT ![p] = AllreduceMax(cmin[p], cmin)]
  /\ cmi' = [cmi EXCEPT ![p] = 1]
  /\ cmpc' = [cmpc EXCEPT ![p] = "aggregate"]
  /\ UNCHANGED <<cmcfg, cmin, notCm>>

\* One element of the second loop on process p: the aggregate sums read
\* max_curvature and leave it alone.
CmAggregateElement(p) ==
  /\ cmpc # <<>> /\ cmpc[p] = "aggregate" /\ cmi[p] <= cmcfg.nel[p]
  /\ cmi' = [cmi EXCEPT ![p] = @ + 1]
  /\ UNCHANGED <<cmcfg, cmpc, cmmax, cmin, notCm>>

\* The MPI_SUM reduction of the two sums and the return of the call.
CmReturn(p) ==
  /\ cmpc # <<>> /\ cmpc[p] = "aggregate" /\ cmi[p] > cmcfg.nel[p]
  /\ \A q \in Procs : cmpc[q] \in {"aggregate", "done"}
  /\ \A q \in Procs : cmpc[q] = "aggregate" => cmi[q] > cmcfg.nel[q]
  /\ cmpc' = [cmpc EXCEPT ![p] = "done"]
  /\ UNCHANGED <<cmcfg, cmi, cmmax, cmin, notCm>>

NextCm ==
  \/ CmCall
  \/ \E p \in Procs :
       \/ CmMaxElement(p) \/ CmMaxReduceEnter(p) \/ CmMaxReduceReturn(p)
       \/ CmAggregateElement(p) \/ CmReturn(p)

SpecCm == InitCm /\ [][NextCm]_vars

\* The per-element costs of all elements of all processes.
CmResults(c) ==
  UNION {{CmResult(c, p, i) : i \in 1 .. c.nel[p]} : p \in Procs}

\* The largest member of a non-empty set of numbers.
CmLargest(S) == CHOOSE v \in S : \A x \in S : x <= v

\* C28: after the max-reduce in evalConstraint, max_curvature on every
\* process is the larger of zero and the largest per-element cost r over
\* all elements of all processes.
MaxCurvatureIsLargestOrZero ==
  cmpc # <<>> =>
    \A p \in Procs :
      cmpc[p] \in {"aggregate", "done"} =>
        cmmax[p] = CmLargest({0} \cup CmResults(cmcfg))

\* The reduction has returned on process 2 in a call in which the largest
\* cost was found on process 1 and is positive, and a cost is negative.
MaxCurvatureFromRemote ==
  /\ cmpc # <<>>
  /\ cmpc[2] = "aggregate"
  /\ cmin[2] < cmin[1]
  /\ \E r \in CmResults(cmcfg) : r < 0

\* C28 as stated: after the max-reduce, max_curvature equals the largest
\* per-element cost r over all elements of all processes.
MaxCurvatureIsLargest ==
  cmpc # <<>> =>
    \A p \in Procs :
      (cmpc[p] \in {"aggregate", "done"} /\ CmResults(cmcfg) # {}) =>
        cmmax[p] = CmLargest(CmResults(cmcfg))


(***************************************************************************)
(* The triangle list and the edge hash table of TMRTriangularize.  A list  *)
(* node is known by the number of its allocation; the hash table is the    *)
(* set of its EdgeHashNode entries (u, v, tri_node), which addTriangle     *)
(* keeps unique per directed edge (u, v) in whatever bucket the edge       *)
(* falls.  The table is redistributed only beyond 10*100 entries.          *)
(***************************************************************************)

\* The largest vertex number of a triangle handed to addTriangle.
MaxVertex == 3

\* The largest number of list nodes allocated.
MaxTriNodes == 3

Vertices == 0 .. MaxVertex

\* TMRTriangle(u, v, w)
Triangles ==
  {t \in Vertices \X Vertices \X Vertices :
     t[1] # t[2] /\ t[2] # t[3] /\ t[3] # t[1]}

\* uint32_t edge_pairs[][2] = {{tri.u, tri.v}, {tri.v, tri.w}, {tri.w, tri.u}}
edge_pairs(tri) == <<<<tri[1], tri[2]>>, <<tri[2], tri[3]>>, <<tri[3], tri[1]>>>>

\* The state left by the head of initialize: no list node, no hash node, no
\* triangle.
EmptyMesh ==
  [list |-> <<>>, hash |-> {}, p2t |-> <<>>, next |-> 1, num_triangles |-> 0]

\* The numbers of the nodes in the list.
ListIds(M) == {M.list[k].id : k \in 1 .. Len(M.list)}

\* The hash nodes of the directed edge (u, v).
HashNodes(M, u, v) == {h \in M.hash : h.u = u /\ h.v = v}

\* pts_to_tris[p] = &(list_end->tri)
PointTo(p2t, p, id) ==
  [q \in (DOMAIN p2t) \cup {p} |-> IF q = p THEN id ELSE p2t[q]]

\* One pass of the loop over edge_pairs in addTriangle: a new hash node, or
\* the existing node of the edge now refers to list_end.
AddEdge(M, e, id) ==
  [M EXCEPT !.hash = (@ \ HashNodes(M, e[1], e[2]))
                       \cup {[u |-> e[1], v |-> e[2], node |-> id]}]

\* int TMRTriangularize::addTriangle( TMRTriangle tri ): the mesh and the
\* return value.
addTriangle(M, tri) ==
  LET id == M.next
      e == edge_pairs(tri)
      M1 == [M EXCEPT
               !.list = Append(@, [id |-> id, tri |-> tri,
                                   status |-> "NO_STATUS", tag |-> 0]),
               !.p2t = PointTo(PointTo(PointTo(@, tri[1], id), tri[2], id),
                               tri[3], id),
               !.next = @ + 1,
               !.num_triangles = @ + 1]
  IN  [mesh |-> AddEdge(AddEdge(AddEdge(M1, e[1], id), e[2], id), e[3], id),
       ret |-> IF \E k \in 1 .. 3 : HashNodes(M, e[k][1], e[k][2]) # {}
               THEN 0 ELSE 1]

\* node->tri_node->tri.status = DELETE_ME: the write lands in the list node
\* the hash node refers to; if that node has been freed it lands in the
\* node now at its address, if any (alias, 0 for none).
MarkDeleted(list, id, alias) ==
  LET at == IF \E k \in 1 .. Len(list) : list[k].id = id THEN id ELSE alias
  IN  [k \in 1 .. Len(list) |->
         IF list[k].id = at THEN [list[k] EXCEPT !.status = "DELETE_ME"]
         ELSE list[k]]

\* One pass of the loop over edge_pairs in deleteTriangle.
DeleteEdge(S, e, alias) ==
  LET found == HashNodes(S.mesh, e[1], e[2])
  IN  IF found = {} THEN [S EXCEPT !.ret = 0]
      ELSE LET h == CHOOSE x \in found : TRUE
           IN  [mesh |-> [S.mesh EXCEPT
                            !.hash = @ \ {h},
                            !.list = IF S.first
                                     THEN MarkDeleted(@, h.node, alias)
                                     ELSE @,
                            !.num_triangles = IF S.first THEN @ - 1 ELSE @],
                first |-> FALSE,
                ret |-> S.ret]

\* int TMRTriangularize::deleteTriangle( TMRTriangle tri ): the mesh and the
\* return value.
deleteTriangle(M, tri, alias) ==
  LET e == edge_pairs(tri)
      S0 == [mesh |-> M, first |-> TRUE, ret |-> 1]
      S3 == DeleteEdge(DeleteEdge(DeleteEdge(S0, e[1], alias), e[2], alias),
                       e[3], alias)
  IN  [mesh |-> S3.mesh, ret |-> S3.ret]

\* void TMRTriangularize::deleteTrianglesFromList(): the marked nodes are
\* unlinked and freed.
deleteTrianglesFromList(M) ==
  [M EXCEPT !.list = SelectSeq(@, LAMBDA n : n.status # "DELETE_ME")]

\* void TMRTriangularize::completeMe( u, v, &tri ): the number of the list
\* node of the triangle found, 0 for NULL.
completeMe(M, u, v) ==
  LET found == HashNodes(M, u, v)
  IN  IF found = {} THEN 0 ELSE (CHOOSE x \in found : TRUE).node

\* The list node with the given number.
ListNode(M, id) ==
  LET k == CHOOSE j \in 1 .. Len(M.list) : M.list[j].id = id IN M.list[k]

\* The triangles a caller can hand to deleteTriangle: callers pass *t for a
\* triangle t returned by completeMe.
Completed(M) ==
  {ListNode(M, h.node).tri : h \in {x \in M.hash : x.node \in ListIds(M)}}

\* What may lie at the address of a freed list node: nothing, or a node
\* of the list.
Aliases(M) ==
  {0} \cup (IF \E h \in M.hash : h.node \notin ListIds(M)
            THEN ListIds(M) ELSE {})

InitTr ==
  /\ GeoIdle
  /\ RefIdle
  /\ ProgIdle
  /\ KsIdle
  /\ WtIdle
  /\ NdIdle
  /\ RcIdle
  /\ KpIdle
  /\ QpIdle
  /\ CoIdle
  /\ CvIdle
  /\ KwIdle
  /\ DuIdle
  /\ DgIdle
  /\ QtIdle
  /\ AxIdle
  /\ CmIdle
  /\ TrIdle
  /\ InIdle

\* The head of initialize: the empty list and hash table.
TrCreate ==
  /\ trmesh = NoCall
  /\ trmesh' = EmptyMesh
  /\ trlast' = [fn |-> "initialize"]
  /\ UNCHANGED notTr

TrAddTriangle ==
  /\ trmesh # NoCall /\ trmesh.next <= MaxTriNodes
  /\ \E tri \in Triangles :
       /\ trmesh' = addTriangle(trmesh, tri).mesh
       /\ trlast' = [fn |-> "addTriangle",
                     ret |-> addTriangle(trmesh, tri).ret]
  /\ UNCHANGED notTr

TrDeleteTriangle ==
  /\ trmesh # NoCall
  /\ \E tri \in Completed(trmesh), alias \in Aliases(trmesh) :
       /\ trmesh' = deleteTriangle(trmesh, tri, alias).mesh
       /\ trlast' = [fn |-> "deleteTriangle",
                     ret |-> deleteTriangle(trmesh, tri, alias).ret]
  /\ UNCHANGED notTr

TrDeleteTrianglesFromList ==
  /\ trmesh # NoCall
  /\ trmesh' = deleteTrianglesFromList(trmesh)
  /\ trlast' = [fn |-> "deleteTrianglesFromList"]
  /\ UNCHANGED notTr

NextTr ==
  \/ TrCreate \/ TrAddTriangle \/ TrDeleteTriangle
  \/ TrDeleteTrianglesFromList

SpecTr == InitTr /\ [][NextTr]_vars

\* C29: after any sequence of addTriangle, deleteTriangle and
\* deleteTrianglesFromList calls, every edge stored in the edge hash table
\* refers to a list node that is still in the list, is not marked
\* DELETE_ME, and whose triangle contains that directed edge.
HashEdgesReferToLiveTriangles ==
  trmesh # NoCall =>
    \A h \in trmesh.hash :
      /\ h.node \in ListIds(trmesh)
      /\ ListNode(trmesh, h.node).status # "DELETE_ME"
      /\ \E k \in 1 .. 3 :
           edge_pairs(ListNode(trmesh, h.node).tri)[k] = <<h.u, h.v>>


(***************************************************************************)
(* TMRTriangularize::initialize: the bounding box and its four corner      *)
(* points, the two initial triangles, the insertion of the input points,   *)
(* the removal of the triangles outside the PSLG, the removal of the       *)
(* corner and hole points from the quadtree and the reset of pts_to_tris.  *)
(* Coordinates are integers; orient2d and incircle are the exact signs of  *)
(* their determinants; the face is a plane parametrised by itself, so the  *)
(* metric of inCircle is the identity.  The point counts tried stay within *)
(* one quadtree leaf, which then holds its points in the order added.      *)
(***************************************************************************)

\* The number of corner points placed before the input points (header
\* TMRTriangularize.h): initialize sets exactly pts[0..7].
FIXED_POINT_OFFSET == 4

\* The largest number of input points.
MaxInPts == 4

\* The coordinates the input points take.
GridCoords == {0, 50, 100}

\* orient2d(pa, pb, pc): positive when pa, pb, pc turn counterclockwise.
orient2d(a, b, c) ==
  ((a[1] - c[1]) * (b[2] - c[2])) - ((a[2] - c[2]) * (b[1] - c[1]))

\* incircle(pa, pb, pc, pd): positive when pd is inside the circle through
\* the counterclockwise pa, pb, pc.
incircle(a, b, c, d) ==
  LET adx == a[1] - d[1]
      ady == a[2] - d[2]
      bdx == b[1] - d[1]
      bdy == b[2] - d[2]
      cdx == c[1] - d[1]
      cdy == c[2] - d[2]
  IN  (((adx * adx) + (ady * ady)) * ((bdx * cdy) - (cdx * bdy)))
      + (((bdx * bdx) + (bdy * bdy)) * ((cdx * ady) - (adx * cdy)))
      + (((cdx * cdx) + (cdy * cdy)) * ((adx * bdy) - (bdx * ady)))

\* &pts[2*u]
PtOf(P, u) == P[u + 1]

\* int TMRTriangularize::enclosed( p, u, v, w )
enclosed(P, p, u, v, w) ==
  /\ orient2d(PtOf(P, u), PtOf(P, v), p) >= 0
  /\ orient2d(PtOf(P, v), PtOf(P, w), p) >= 0
  /\ orient2d(PtOf(P, w), PtOf(P, u), p) >= 0

\* double TMRTriangularize::inCircle( u, v, w, x )
inCircle(P, u, v, w, x) ==
  incircle(PtOf(P, u), PtOf(P, v), PtOf(P, w), PtOf(P, x))

\* setUpPSLGEdges: both directions of every segment, offset by the corners.
setUpPSLGEdges(segs) ==
  UNION {{<<segs[i][1] + FIXED_POINT_OFFSET, segs[i][2] + FIXED_POINT_OFFSET>>,
          <<segs[i][2] + FIXED_POINT_OFFSET, segs[i][1] + FIXED_POINT_OFFSET>>} :
           i \in 1 .. Len(segs)}

\* int TMRTriangularize::edgeInPSLG( u, v )
edgeInPSLG(E, u, v) == <<u, v>> \in E

\* dx*dx + dy*dy, the square of the distance compared in findClosest.
Dist2(a, b) ==
  ((a[1] - b[1]) * (a[1] - b[1])) + ((a[2] - b[2]) * (a[2] - b[2]))

RECURSIVE findClosestLoop(_, _, _, _, _)
\* The leaf loop of findClosest from entry k on: the first of the nearest.
findClosestLoop(Q, P, pt, k, best) ==
  IF k > Len(Q) THEN best
  ELSE findClosestLoop(Q, P, pt, k + 1,
         IF best = 0 - 1 THEN Q[k]
         ELSE IF Dist2(PtOf(P, Q[k]), pt) < Dist2(PtOf(P, best), pt)
              THEN Q[k] ELSE best)

\* uint32_t TMRQuadNode::findClosest( pt, NULL )
findClosest(Q, P, pt) ==
  LET r == findClosestLoop(Q, P, pt, 1, 0 - 1) IN IF r = 0 - 1 THEN 0 ELSE r

\* One neighbour of the triangle popped in findEnclosing.
WalkEdge(M, P, pt, S, e) ==
  IF S.found # 0 THEN S
  ELSE LET t2 == completeMe(M, e[2], e[1])
       IN  IF t2 # 0 /\ t2 \notin S.tagged
           THEN LET tri == ListNode(M, t2).tri
                IN  IF enclosed(P, pt, tri[1], tri[2], tri[3])
                    THEN [S EXCEPT !.found = t2]
                    ELSE [S EXCEPT !.tagged = @ \cup {t2},
                                   !.queue = Append(@, t2)]
           ELSE S

RECURSIVE Walk(_, _, _, _)
\* while (queue.size > 0) of findEnclosing
Walk(M, P, pt, S) ==
  IF S.found # 0 \/ S.queue = <<>> THEN S.found
  ELSE LET e == edge_pairs(ListNode(M, Head(S.queue)).tri)
           S0 == [S EXCEPT !.queue = Tail(@)]
       IN  Walk(M, P, pt,
                WalkEdge(M, P, pt,
                         WalkEdge(M, P, pt, WalkEdge(M, P, pt, S0, e[1]),
                                  e[2]),
                         e[3]))

\* void TMRTriangularize::findEnclosing( pt, &ptr ): the list node of the
\* triangle found, 0 for NULL.
findEnclosing(M, P, Q, pt) ==
  LET t == M.p2t[findClosest(Q, P, pt)]
      tri == ListNode(M, t).tri
  IN  IF enclosed(P, pt, tri[1], tri[2], tri[3]) THEN t
      ELSE Walk(M, P, pt, [queue |-> <<t>>, tagged |-> {t}, found |-> 0])

\* The vertex of tri opposite its directed edge (w, v).
Apex(tri, w, v) ==
  IF tri[1] = w /\ tri[2] = v THEN tri[3]
  ELSE IF tri[2] = w /\ tri[3] = v THEN tri[1]
  ELSE IF tri[3] = w /\ tri[1] = v THEN tri[2]
  ELSE 0

RECURSIVE digCavity(_, _, _, _, _, _)
\* void TMRTriangularize::digCavity( u, v, w )
digCavity(M, P, E, u, v, w) ==
  IF edgeInPSLG(E, w, v) THEN addTriangle(M, <<u, v, w>>).mesh
  ELSE LET t == completeMe(M, w, v)
       IN  IF t = 0 THEN addTriangle(M, <<u, v, w>>).mesh
           ELSE LET tri == ListNode(M, t).tri
                    x == Apex(tri, w, v)
                IN  IF inCircle(P, u, v, w, x) > 0
                    THEN digCavity(
                           digCavity(deleteTriangle(M, tri, 0).mesh,
                                     P, E, u, v, x),
                           P, E, u, x, w)
                    ELSE addTriangle(M, <<u, v, w>>).mesh

\* uint32_t TMRTriangularize::addPoint( pt ): the point joins the quadtree
\* and pts, with no triangle yet.
addPoint(D, pt) ==
  [D EXCEPT !.quad = Append(@, Len(D.pts)),
            !.mesh.p2t = PointTo(@, Len(D.pts), 0),
            !.pts = Append(@, pt)]

\* void TMRTriangularize::addPointToMesh( pt )
addPointToMesh(D, pt) ==
  LET t == findEnclosing(D.mesh, D.pts, D.quad, pt)
      u == Len(D.pts)
      D1 == addPoint(D, pt)
  IN  IF t = 0 THEN D1
      ELSE LET tri == ListNode(D.mesh, t).tri
               M0 == deleteTriangle(D1.mesh, tri, 0).mesh
               M1 == digCavity(M0, D1.pts, D.pslg, u, tri[1], tri[2])
               M2 == digCavity(M1, D1.pts, D.pslg, u, tri[2], tri[3])
               M3 == digCavity(M2, D1.pts, D.pslg, u, tri[3], tri[1])
           IN  [D1 EXCEPT !.mesh = M3]

\* t->tag = tag
SetTag(M, id, tag) ==
  [M EXCEPT !.list = [k \in 1 .. Len(M.list) |->
                        IF M.list[k].id = id
                        THEN [M.list[k] EXCEPT !.tag = tag]
                        ELSE M.list[k]]]

RECURSIVE tagTriangles(_, _, _)
RECURSIVE TagEdge(_, _, _)
\* One pass of the loop of tagTriangles.
TagEdge(M, E, e) ==
  IF edgeInPSLG(E, e[1], e[2]) THEN M
  ELSE LET t == completeMe(M, e[2], e[1])
       IN  IF t # 0 /\ ListNode(M, t).tag = 0
           THEN tagTriangles(SetTag(M, t, 1), E, ListNode(M, t).tri)
           ELSE M

\* void TMRTriangularize::tagTriangles( tri )
tagTriangles(M, E, tri) ==
  LET e == edge_pairs(tri)
  IN  TagEdge(TagEdge(TagEdge(M, E, e[1]), E, e[2]), E, e[3])

\* void TMRTriangularize::setTriangleTags( tag )
setTriangleTags(M, tag) ==
  [M EXCEPT !.list = [k \in 1 .. Len(M.list) |-> [M.list[k] EXCEPT !.tag = tag]]]

RECURSIVE TagOutside(_, _, _, _)
\* The loop of initialize that starts tagTriangles at every triangle that
\* touches a corner point or a hole point, from list position k on.
TagOutside(M, E, max_node_num, k) ==
  IF k > Len(M.list) THEN M
  ELSE LET n == M.list[k]
       IN  TagOutside(
             IF /\ n.status # "DELETE_ME" /\ n.tag = 0
                /\ \E j \in 1 .. 3 :
                     n.tri[j] < FIXED_POINT_OFFSET \/ n.tri[j] >= max_node_num
             THEN tagTriangles(M, E, n.tri) ELSE M,
             E, max_node_num, k + 1)

RECURSIVE DeleteTagged(_, _)
\* The loop of initialize that hands every tagged node to deleteTriangle.
DeleteTagged(M, k) ==
  IF k > Len(M.list) THEN M
  ELSE DeleteTagged(IF M.list[k].tag = 1
                    THEN deleteTriangle(M, M.list[k].tri, 0).mesh ELSE M,
                    k + 1)

RECURSIVE ResetPointers(_, _)
\* The last loop of initialize: pts_to_tris of the vertices of every node
\* of the list.
ResetPointers(M, k) ==
  IF k > Len(M.list) THEN M
  ELSE LET n == M.list[k]
       IN  ResetPointers(
             [M EXCEPT !.p2t = PointTo(PointTo(PointTo(@, n.tri[1], n.id),
                                               n.tri[2], n.id),
                                       n.tri[3], n.id)],
             k + 1)

\* The least and the greatest of a non-empty set of numbers.
Least(S) == CHOOSE v \in S : \A x \in S : v <= x
Greatest(S) == CHOOSE v \in S : \A x \in S : x <= v

\* The four corner points of the enlarged domain, in the order stored.
DomainCorners(inpts) ==
  LET xs == {inpts[i][1] : i \in 1 .. Len(inpts)}
      ys == {inpts[i][2] : i \in 1 .. Len(inpts)}
      xsmall == (Greatest(xs) - Least(xs)) \div 100
      ysmall == (Greatest(ys) - Least(ys)) \div 100
      xlow == Least(xs) - xsmall
      xhigh == Greatest(xs) + xsmall
      ylow == Least(ys) - ysmall
      yhigh == Greatest(ys) + ysmall
  IN  <<<<xlow, ylow>>, <<xhigh, ylow>>, <<xlow, yhigh>>, <<xhigh, yhigh>>>>

\* c lies on the segment from a to b.
OnSegment(a, b, c) ==
  /\ orient2d(a, b, c) = 0
  /\ Least({a[1], b[1]}) <= c[1] /\ c[1] <= Greatest({a[1], b[1]})
  /\ Least({a[2], b[2]}) <= c[2] /\ c[2] <= Greatest({a[2], b[2]})

\* The segments a-b and c-d have a point in common.
SegmentsMeet(a, b, c, d) ==
  \/ OnSegment(a, b, c) \/ OnSegment(a, b, d)
  \/ OnSegment(c, d, a) \/ OnSegment(c, d, b)
  \/ /\ (orient2d(a, b, c) > 0) # (orient2d(a, b, d) > 0)
     /\ (orient2d(c, d, a) > 0) # (orient2d(c, d, b) > 0)
     /\ orient2d(a, b, c) # 0 /\ orient2d(a, b, d) # 0
     /\ orient2d(c, d, a) # 0 /\ orient2d(c, d, b) # 0

\* The closed polygon through the points of s, in order, is simple: its
\* sides meet only at shared end points and it encloses an area.
SimplePolygon(s) ==
  LET n == Len(s)
      nxt(i) == IF i = n THEN 1 ELSE i + 1
  IN  /\ \A i, j \in 1 .. n : i # j => s[i] # s[j]
      /\ \A i, j \in 1 .. n :
           (j # i /\ j # nxt(i) /\ i # nxt(j)) =>
              ~SegmentsMeet(s[i], s[nxt(i)], s[j], s[nxt(j)])
      /\ \A i \in 1 .. n :
           /\ ~OnSegment(s[i], s[nxt(i)], s[nxt(nxt(i))])
           /\ ~OnSegment(s[nxt(i)], s[nxt(nxt(i))], s[i])
      /\ \E i \in 1 .. n : orient2d(s[i], s[nxt(i)], s[nxt(nxt(i))]) # 0

\* The segments of the closed loop through input points 0 .. n-1.
ClosedLoop(n) == [i \in 1 .. n |-> <<i - 1, IF i = n THEN 0 ELSE i>>]

\* The calls tried: the points of a simple polygon that spans the grid, in
\* either direction, with the segments of its boundary and no hole.
InConfigs ==
  UNION {{[fn |-> "initialize", inpts |-> s, nholes |-> 0,
           segs |-> ClosedLoop(n)] :
            s \in {x \in [1 .. n -> GridCoords \X GridCoords] :
                     /\ SimplePolygon(x)
                     /\ {0, 100} \subseteq {x[i][1] : i \in 1 .. n}
                     /\ {0, 100} \subseteq {x[i][2] : i \in 1 .. n}}} :
         n \in 3 .. MaxInPts}

InitIn ==
  /\ GeoIdle
  /\ RefIdle
  /\ ProgIdle
  /\ KsIdle
  /\ WtIdle
  /\ NdIdle
  /\ RcIdle
  /\ KpIdle
  /\ QpIdle
  /\ CoIdle
  /\ CvIdle
  /\ KwIdle
  /\ DuIdle
  /\ DgIdle
  /\ QtIdle
  /\ AxIdle
  /\ CmIdle
  /\ TrIdle
  /\ InIdle

\* initialize up to the two initial triangles: the domain, the corner
\* points in pts and in the quadtree, the PSLG edges.
InCall ==
  /\ inpc = "idle"
  /\ \E c \in InConfigs :
       /\ incfg' = c
       /\ inst' = [mesh |-> addTriangle(addTriangle(EmptyMesh, <<0, 1, 2>>).mesh,
                                        <<2, 1, 3>>).mesh,
                   pts |-> DomainCorners(c.inpts),
                   quad |-> <<0, 1, 2, 3>>,
                   pslg |-> setUpPSLGEdges(c.segs),
                   i |-> 1]
  /\ inpc' = "points"
  /\ UNCHANGED notIn

\* One pass of the loop over the input points: addPointToMesh(&inpts[2*i])
InAddPointToMesh ==
  /\ inpc = "points" /\ inst.i <= Len(incfg.inpts)
  /\ inst' = [addPointToMesh(inst, incfg.inpts[inst.i]) EXCEPT !.i = @ + 1]
  /\ UNCHANGED <<incfg, inpc, notIn>>

\* setTriangleTags(0) and the loop that tags the triangles to delete.
InTagTriangles ==
  /\ inpc = "points" /\ inst.i > Len(incfg.inpts)
  /\ inst' = [inst EXCEPT
                !.mesh = TagOutside(setTriangleTags(@, 0), inst.pslg,
                                    Len(inst.pts) - incfg.nholes, 1)]
  /\ inpc' = "tagged"
  /\ UNCHANGED <<incfg, notIn>>

\* The tagged triangles are deleted from the hash table and then freed
\* from the list.
InDeleteTagged ==
  /\ inpc = "tagged"
  /\ inst' = [inst EXCEPT
                !.mesh = deleteTrianglesFromList(DeleteTagged(@, 1))]
  /\ inpc' = "deleted"
  /\ UNCHANGED <<incfg, notIn>>

\* The corner points and the hole points leave the quadtree, the node to
\* triangle pointers are reset, initialize returns.
InReturn ==
  /\ inpc = "deleted"
  /\ inst' = [inst EXCEPT
                !.quad = SelectSeq(@, LAMBDA p :
                            /\ p >= FIXED_POINT_OFFSET
                            /\ p < Len(inst.pts) - incfg.nholes),
                !.mesh = ResetPointers(@, 1)]
  /\ inpc' = "done"
  /\ UNCHANGED <<incfg, notIn>>

NextIn ==
  \/ InCall \/ InAddPointToMesh \/ InTagTriangles \/ InDeleteTagged
  \/ InReturn

SpecIn == InitIn /\ [][NextIn]_vars

\* C30: when initialize returns, for every point still stored in the
\* quadtree the point-to-triangle pointer refers to a triangle that is
\* still in the triangle list and that has the point as one of its
\* vertices.
StoredPointsReferToListedTriangles ==
  inpc = "done" =>
    \A k \in 1 .. Len(inst.quad) :
      LET p == inst.quad[k]
          t == inst.mesh.p2t[p]
      IN  /\ t \in ListIds(inst.mesh)
          /\ \E j \in 1 .. 3 : ListNode(inst.mesh, t).tri[j] = p

=============================================================================
